---- MODULE Spec2Model ----
(***************************************************************************)
(* A model of EasyTextToImage (easy_text_to_image/color.py and             *)
(* easy_text_to_image/text_to_image.py).  The library is a set of pure      *)
(* functions, so every specification below draws the arguments of one      *)
(* function in its initial states and has one action per function, which   *)
(* applies the function as the source computes it and stores what it       *)
(* returns.  Strings are sequences of one-character strings.               *)
(***************************************************************************)
EXTENDS Integers, Sequences, FiniteSets, TLC

VARIABLES
    pc,             \* "call" before the function is applied, "done" after
    hue,            \* color.py: argument hue
    offset,         \* color.py: argument offset of get_hue_offsets
    hue_ret,        \* what get_hue_in_range returned
    hues,           \* what get_hue_offsets returned
    rgb,            \* color.py: argument rgb of rgb_to_hex_color
    hex_color,      \* what rgb_to_hex_color returned
    image,          \* get_bounds: the buffer, [width, height, px]
    color,          \* get_bounds: the colour searched for / against
    foreground,     \* get_bounds: search for the colour (TRUE) or its absence
    bounds,         \* what get_bounds returned: <<left, top, right, bottom>>
    text,           \* the text argument, a sequence of characters
    font,           \* the font argument (an ImageFont)
    image_width,    \* the image_width argument, in pixels
    minimum_characters,  \* the minimum_characters argument
    wrap,           \* get_word_wrap: [status, lines, font_size]
    font_size,      \* the font_size argument of get_text_line_image
    image_height,   \* the image_height argument of text_image_fit_box
    space,          \* the space argument, a fraction <<numerator, denominator>>
    justified,      \* the justified argument: "l", "c" or "r"
    vertical,       \* the vertical argument: "t", "c" or "b"
    text_foreground,  \* the foreground argument of the text functions, a colour
    background,     \* the background argument, a colour
    rendered,       \* what the rendering function returned: [status, image]
    prev_size,      \* the size of the image an earlier call returned
    called,         \* the function that was applied, where several can be
    palette,        \* what a palette function returned
    dark_hue,       \* color.py: argument dark_hue of get_dual_hue_palette
    light_hue,      \* color.py: argument light_hue of get_dual_hue_palette
    foreground_hue, \* get_color_palette: the local foreground_hue
    background_hue, \* get_color_palette: the local background_hue
    font_name,      \* get_font: argument font_name
    fonts,          \* get_font, get_basic_font: argument fonts, a list of files
    font_style,     \* get_basic_font: argument font_style
    bold,           \* get_basic_font: argument bold
    italic,         \* get_basic_font: argument italic
    image_font,     \* what get_font / get_basic_font returned
    text_lines,     \* get_text_multiline_image: argument lines
    search          \* get_word_wrap: the locals of the font size search

colorVars == <<hue, offset, hue_ret, hues, rgb, hex_color>>
boundsVars == <<image, color, foreground, bounds>>
textVars == <<text, font, image_width, minimum_characters>>
wrapVars == <<wrap>>
renderVars == <<font_size, image_height, space, justified, vertical,
                text_foreground, background>>
renderedVars == <<rendered, prev_size>>
paletteVars == <<called, palette, dark_hue, light_hue, foreground_hue,
                 background_hue>>
fontVars == <<font_name, fonts, font_style, bold, italic, image_font>>
searchVars == <<text_lines, search>>
vars == <<pc, colorVars, boundsVars, textVars, wrapVars, renderVars,
          renderedVars, paletteVars, fontVars, searchVars>>

None == "None"

(***************************************************************************)
(* Small arithmetic helpers.                                               *)
(***************************************************************************)
Max(a, b) == IF a >= b THEN a ELSE b

\* A function as a stored table.  (f @@ <<>> is f; TLC stores it as a
\* table, so that a value of it is computed once and not at every reading
\* of it.)
Table(f) == f @@ <<>>

\* The element of a set of one element.  The({e(v) : v \in {x}}) is e(x),
\* with x evaluated once and named v.
The(S) == CHOOSE v \in S : TRUE

(***************************************************************************)
(* color.py                                                                *)
(***************************************************************************)

\* Bounds of the hue arguments drawn for get_hue_in_range: -MaxHue..MaxHue.
MaxHue == 800
\* Shifts k of the periodicity check h + 360*k: -MaxShift..MaxShift.
MaxShift == 2
\* Hue arguments drawn for get_hue_offsets: -MaxOffsetHue..359+MaxOffsetHue.
MaxOffsetHue == 30

\* The size of the hue circle: the literals 359 / 360 of get_hue_in_range.
FullCircle == 360

RECURSIVE AddWhileBelow(_)
\* color.py:18-19   while modified_hue < 0: modified_hue += 360
AddWhileBelow(h) == IF h < 0 THEN AddWhileBelow(h + FullCircle) ELSE h

RECURSIVE SubWhileAbove(_)
\* color.py:21-22   while modified_hue > 359: modified_hue -= 360
SubWhileAbove(h) == IF h > FullCircle - 1 THEN SubWhileAbove(h - FullCircle) ELSE h

\* get_hue_in_range without its first loop: negative hues are returned as is.
get_hue_in_range_NoAdd(h) == SubWhileAbove(h)

\* color.py:7-24
get_hue_in_range(h) == SubWhileAbove(AddWhileBelow(h))

\* int(360/offset): true division then truncation toward zero.  For the
\* integer offsets 1..360 the quotient is never within rounding distance of
\* a larger integer, so the result is the integer quotient.
IntDiv360(off) == FullCircle \div off

\* get_hue_offsets that steps by i from the previous hue without the offset
\* factor (hue + i instead of hue + i*offset).
get_hue_offsets_NoScale(h, off) ==
    [i \in 1..IntDiv360(off) |-> get_hue_in_range(h + (i - 1))]

\* color.py:26-40   the list is built for i = 0 .. int(360/offset)-1; the
\* TLA+ sequence is indexed from 1, so element i holds the hue of i-1.
get_hue_offsets(h, off) ==
    [i \in 1..IntDiv360(off) |-> get_hue_in_range(h + ((i - 1) * off))]

\* The digits hex() writes.
HexChar == <<"0","1","2","3","4","5","6","7","8","9","a","b","c","d","e","f">>

RECURSIVE HexDigits(_)
\* hex(n)[2:] for n >= 0: the base-16 digits of n, no leading zero.
HexDigits(n) ==
    IF n < 16 THEN <<HexChar[n + 1]>>
    ELSE HexDigits(n \div 16) \o <<HexChar[(n % 16) + 1]>>

RECURSIVE zfill(_, _)
\* str.zfill(width): pad with "0" on the left up to width characters.
zfill(s, width) == IF Len(s) >= width THEN s ELSE zfill(<<"0">> \o s, width)

\* str.lower() on the characters hex() can write (they are lower case).
lower(s) == s

\* One channel of rgb_to_hex_color: hex(c)[2:].zfill(2).lower()
HexChannel(c) == lower(zfill(HexDigits(c), 2))

\* The channel without zfill(2).
HexChannelNoFill(c) == lower(HexDigits(c))

\* rgb_to_hex_color with the channels not zero-filled.
rgb_to_hex_color_NoFill(t) ==
    <<"#">> \o HexChannelNoFill(t[1]) \o HexChannelNoFill(t[2])
            \o HexChannelNoFill(t[3]) \o <<"f", "f">>

\* color.py:42-56
rgb_to_hex_color(t) ==
    <<"#">> \o HexChannel(t[1]) \o HexChannel(t[2]) \o HexChannel(t[3])
            \o <<"f", "f">>

\* The value of one hexadecimal digit, -1 for any other character.
HexValue(c) ==
    IF \E i \in 1..16 : HexChar[i] = c
    THEN (CHOOSE i \in 1..16 : HexChar[i] = c) - 1
    ELSE -1

\* PIL.ImageColor.getrgb on a "#rrggbbaa" string (text_to_image.py:154 calls
\* it on the colour argument): four two-digit hexadecimal channels; the empty
\* tuple stands for the ValueError raised for any other string.
getrgb(s) ==
    IF /\ Len(s) = 9
       /\ s[1] = "#"
       /\ \A i \in 2..9 : HexValue(s[i]) >= 0
    THEN [i \in 1..4 |-> (16 * HexValue(s[2 * i])) + HexValue(s[(2 * i) + 1])]
    ELSE <<>>

(***************************************************************************)
(* Python floats (IEEE 754 binary64), as far as colorsys.hsv_to_rgb and    *)
(* ImageColor.getrgb use them: non-negative values, round to nearest, ties *)
(* to even.  A significand has 53 bits, more than an integer of the model  *)
(* holds, so a natural number is a sequence of limbs of 14 bits, the least *)
(* significant first and the last limb not zero (<<>> is zero).            *)
(***************************************************************************)

RECURSIVE Pow2(_)
Pow2(k) == IF k = 0 THEN 1 ELSE 2 * Pow2(k - 1)

\* The limb of an integer and what it carries to the next limb (a limb has
\* 14 bits).
Limb(n) == n % 16384
Carry(n) == n \div 16384

\* a without its leading (last) zero limbs
Trim(a) ==
    The({SubSeq(x, 1, Cardinality({i \in 1..Len(x) :
                                      \E j \in i..Len(x) : x[j] # 0})) :
        x \in {a}})

RECURSIVE NatLimbs(_)
\* the limbs of an integer n >= 0
NatLimbs(n) == IF n = 0 THEN <<>> ELSE <<Limb(n)>> \o NatLimbs(Carry(n))

RECURSIVE NatValue(_)
\* the integer of limbs a (for a that fits an integer)
NatValue(a) == IF a = <<>> THEN 0 ELSE a[1] + (16384 * NatValue(Tail(a)))

LimbAt(a, i) == IF i <= Len(a) THEN a[i] ELSE 0

RECURSIVE NatAddFrom(_, _, _, _)
NatAddFrom(a, b, i, carry) ==
    IF i > Len(a) /\ i > Len(b)
    THEN (IF carry = 0 THEN <<>> ELSE <<carry>>)
    ELSE The({<<Limb(sum)>> \o NatAddFrom(a, b, i + 1, Carry(sum)) :
             sum \in {LimbAt(a, i) + LimbAt(b, i) + carry}})

\* a + b
NatAdd(a, b) == The({NatAddFrom(x, y, 1, 0) : x \in {a}, y \in {b}})

RECURSIVE NatSubFrom(_, _, _, _)
NatSubFrom(a, b, i, borrow) ==
    IF i > Len(a) THEN <<>>
    ELSE The({IF diff < 0
              THEN <<diff + 16384>> \o NatSubFrom(a, b, i + 1, 1)
              ELSE <<diff>> \o NatSubFrom(a, b, i + 1, 0) :
             diff \in {a[i] - LimbAt(b, i) - borrow}})

\* a - b, for a >= b
NatSub(a, b) == Trim(The({NatSubFrom(x, y, 1, 0) : x \in {a}, y \in {b}}))

RECURSIVE NatLessFrom(_, _, _)
NatLessFrom(a, b, i) ==
    IF i = 0 THEN FALSE
    ELSE IF a[i] # b[i] THEN a[i] < b[i]
    ELSE NatLessFrom(a, b, i - 1)

\* a < b
NatLess(a, b) ==
    \E x \in {a}, y \in {b} :
        IF Len(x) # Len(y) THEN Len(x) < Len(y) ELSE NatLessFrom(x, y, Len(x))

RECURSIVE NatTimesLimbFrom(_, _, _, _)
NatTimesLimbFrom(a, k, i, carry) ==
    IF i > Len(a) THEN (IF carry = 0 THEN <<>> ELSE <<carry>>)
    ELSE The({<<Limb(product)>> \o NatTimesLimbFrom(a, k, i + 1, Carry(product)) :
             product \in {(a[i] * k) + carry}})

\* a * k, for a limb k
NatTimesLimb(a, k) ==
    The({IF d = 0 THEN <<>> ELSE NatTimesLimbFrom(x, d, 1, 0) :
        x \in {a}, d \in {k}})

\* a * 2^(14 * n)
NatShiftLimbs(a, n) ==
    The({IF x = <<>> THEN x ELSE [i \in 1..n |-> 0] \o x : x \in {a}})

RECURSIVE NatMulFrom(_, _, _, _)
\* a * (the limbs of b from limb i) * 2^(14 * (i - 1)) + sum
NatMulFrom(a, b, i, sum) ==
    IF i > Len(b) THEN sum
    ELSE The({NatMulFrom(a, b, i + 1, next) :
             next \in {NatAdd(sum, NatShiftLimbs(NatTimesLimb(a, b[i]), i - 1))}})

\* a * b
NatMul(a, b) == The({NatMulFrom(x, y, 1, <<>>) : x \in {a}, y \in {b}})

\* a * 2^k
NatShiftLeft(a, k) == NatShiftLimbs(NatTimesLimb(a, Pow2(k % 14)), k \div 14)

RECURSIVE NatDivLimbFrom(_, _, _, _)
\* the limbs of a \div d from limb i down, for a limb d; rem is the
\* remainder that comes down from the limbs above
NatDivLimbFrom(a, d, i, rem) ==
    IF i = 0 THEN <<>>
    ELSE The({NatDivLimbFrom(a, d, i - 1, part % d) \o <<part \div d>> :
             part \in {(rem * 16384) + a[i]}})

\* a \div d, for a limb d > 0
NatDivLimb(a, d) ==
    Trim(The({NatDivLimbFrom(x, y, Len(x), 0) : x \in {a}, y \in {d}}))

RECURSIVE NatModLimbFrom(_, _, _, _)
NatModLimbFrom(a, d, i, rem) ==
    IF i = 0 THEN rem
    ELSE The({NatModLimbFrom(a, d, i - 1, part % d) :
             part \in {(rem * 16384) + a[i]}})

\* a % d, for a limb d > 0
NatModLimb(a, d) ==
    The({NatModLimbFrom(x, y, Len(x), 0) : x \in {a}, y \in {d}})

\* a \div 2^k
NatShiftRight(a, k) ==
    The({IF n \div 14 >= Len(x) THEN <<>>
         ELSE NatDivLimb(SubSeq(x, (n \div 14) + 1, Len(x)), Pow2(n % 14)) :
        x \in {a}, n \in {k}})

\* a % 2^k
NatLowBits(a, k) ==
    The({IF n \div 14 >= Len(x) THEN x
         ELSE Trim(SubSeq(x, 1, n \div 14)
                   \o <<x[(n \div 14) + 1] % Pow2(n % 14)>>) :
        x \in {a}, n \in {k}})

RECURSIVE BitsOf(_)
\* the number of bits of an integer n >= 0
BitsOf(n) == IF n = 0 THEN 0 ELSE 1 + BitsOf(n \div 2)

\* the number of bits of a
NatBits(a) == IF a = <<>> THEN 0 ELSE (14 * (Len(a) - 1)) + BitsOf(a[Len(a)])

NatOdd(a) == a # <<>> /\ a[1] % 2 = 1

\* The float of 53 bits nearest to n * 2^e (+ a part below one unit of n
\* when sticky), ties to even, for n of more than 53 bits: q is n without
\* its low k bits and r the low k bits.
RoundDown(n, e, sticky, k) ==
    The({The({IF NatBits(m) > 53
              THEN [m |-> NatShiftRight(m, 1), e |-> e + k + 1]
              ELSE [m |-> m, e |-> e + k] :
             m \in {IF \/ NatLess(half, r)
                       \/ r = half /\ (sticky \/ NatOdd(q))
                    THEN NatAdd(q, <<1>>) ELSE q}}) :
        q \in {NatShiftRight(n, k)}, r \in {NatLowBits(n, k)},
        half \in {NatShiftLeft(<<1>>, k - 1)}})

\* A float is [m, e]: the value m * 2^e, with m of exactly 53 bits, or m
\* zero.  RoundFloat is the float nearest to n * 2^e (+ a part below one
\* unit of n when sticky), ties to even.
RoundFloat(n, e, sticky) ==
    The({IF x = <<>> THEN [m |-> <<>>, e |-> 0]
         ELSE IF bits <= 53
         THEN [m |-> NatShiftLeft(x, 53 - bits), e |-> y - (53 - bits)]
         ELSE RoundDown(x, y, sticky, bits - 53) :
        x \in {n}, y \in {e}, bits \in {NatBits(n)}})

\* float(n) for an integer n >= 0
FloatOfInt(n) == RoundFloat(NatLimbs(n), 0, FALSE)

\* x * y
FloatMul(x, y) ==
    The({RoundFloat(NatMul(a.m, b.m), a.e + b.e, FALSE) : a \in {x}, b \in {y}})

\* the exponent both of x and y are brought to
LowExponent(x, y) ==
    IF x.m = <<>> THEN y.e
    ELSE IF y.m = <<>> THEN x.e
    ELSE IF x.e < y.e THEN x.e ELSE y.e

\* the significand of x at the exponent e <= x.e
Aligned(x, e) == IF x.m = <<>> THEN <<>> ELSE NatShiftLeft(x.m, x.e - e)

\* x + y
FloatAdd(x, y) ==
    The({RoundFloat(NatAdd(Aligned(a, e), Aligned(b, e)), e, FALSE) :
        a \in {x}, b \in {y}, e \in {LowExponent(x, y)}})

\* x - y, for x >= y
FloatSub(x, y) ==
    The({RoundFloat(NatSub(Aligned(a, e), Aligned(b, e)), e, FALSE) :
        a \in {x}, b \in {y}, e \in {LowExponent(x, y)}})

\* float(n) / float(d) for integers n >= 0 and a limb d > 0: the quotient
\* of n * 2^70 by d has more than 53 bits, the remainder is the sticky part.
FloatDivInt(n, d) ==
    The({RoundFloat(NatDivLimb(scaled, d), 0 - 70, NatModLimb(scaled, d) # 0) :
        scaled \in {NatShiftLeft(NatLimbs(n), 70)}})

\* int(x): truncation
FloatToInt(x) ==
    The({IF a.m = <<>> THEN 0
         ELSE IF a.e >= 0 THEN NatValue(NatShiftLeft(a.m, a.e))
         ELSE NatValue(NatShiftRight(a.m, 0 - a.e)) : a \in {x}})

\* 0.5
FloatHalf == [m |-> NatShiftLeft(<<1>>, 52), e |-> 0 - 53]

(***************************************************************************)
(* colorsys.hsv_to_rgb and the hsv branch of PIL.ImageColor.getrgb         *)
(***************************************************************************)

\* colorsys.hsv_to_rgb(h, s, v) for floats h, s, v after its test of
\* s == 0.0: i is int(h*6.0) and f is (h*6.0) - i
HsvSector(s, v, i, f) ==
    The({The({IF i % 6 = 0 THEN <<v, t, p>>
              ELSE IF i % 6 = 1 THEN <<q, v, p>>
              ELSE IF i % 6 = 2 THEN <<p, v, t>>
              ELSE IF i % 6 = 3 THEN <<p, q, v>>
              ELSE IF i % 6 = 4 THEN <<t, p, v>>
              ELSE <<v, p, q>> :
             p \in {FloatMul(v, FloatSub(one, s))},
             q \in {FloatMul(v, FloatSub(one, FloatMul(s, f)))},
             t \in {FloatMul(v, FloatSub(one, FloatMul(s, FloatSub(one, f))))}}) :
        one \in {FloatOfInt(1)}})

\* colorsys.hsv_to_rgb(h, s, v) for floats h, s, v: the three channels
hsv_to_rgb(h, s, v) ==
    The({IF y.m = <<>> THEN <<z, z, z>>
         ELSE The({The({HsvSector(y, z, i, f) :
                       f \in {FloatSub(h6, FloatOfInt(i))}}) :
                  i \in {FloatToInt(h6)}}) :
        y \in {s}, z \in {v}, h6 \in {FloatMul(h, FloatOfInt(6))}})

\* The channel without the 0.5 added: int(c * 255)
ChannelOfFloat_Truncated(c) == FloatToInt(FloatMul(c, FloatOfInt(255)))

\* int((c * 255) + 0.5)
ChannelOfFloat(c) == FloatToInt(FloatAdd(FloatMul(c, FloatOfInt(255)), FloatHalf))

\* ImageColor.getrgb(f"hsv({h}, {s}%, {v}%)") for integers h, s, v >= 0:
\* hsv_to_rgb(float(h) / 360.0, float(s) / 100.0, float(v) / 100.0), every
\* channel c as int((c * 255) + 0.5)
getrgb_hsv(h, s, v) ==
    The({[k \in 1..3 |-> ChannelOfFloat(channels[k])] :
        channels \in {hsv_to_rgb(FloatDivInt(h, 360), FloatDivInt(s, 100),
                                 FloatDivInt(v, 100))}})

(***************************************************************************)
(* color.py: the palettes.  A palette is a function from its keys to       *)
(* colours.                                                                *)
(***************************************************************************)

\* color.py:71-77   the saturation and the value (in percent) of the colour
\* of every key
Recipes ==
    ("light-saturated" :> <<80, 90>>)
    @@ ("dark-saturated" :> <<80, 30>>)
    @@ ("light-desaturated" :> <<20, 100>>)
    @@ ("dark-desaturated" :> <<50, 20>>)

\* color.py:58-79   the dictionary get_monochrome_palette builds:
\* rgb_to_hex_color(ImageColor.getrgb(f"hsv({hue}, {s}%, {v}%)")) for every
\* key
MonochromePalette(h) ==
    [key \in DOMAIN Recipes |->
        rgb_to_hex_color(getrgb_hsv(h, Recipes[key][1], Recipes[key][2]))]

\* The palettes of the hues 0..359, computed once.
MonochromePalettes == Table([h \in 0..(FullCircle - 1) |-> MonochromePalette(h)])

\* color.py:58-79
get_monochrome_palette(h) ==
    IF h \in DOMAIN MonochromePalettes THEN MonochromePalettes[h]
    ELSE MonochromePalette(h)

\* get_dual_hue_palette that takes all four colours from the palette of the
\* dark hue.
get_dual_hue_palette_OneHue(dark, light) ==
    The({("light-saturated" :> dark_palette["light-saturated"])
         @@ ("light-desaturated" :> dark_palette["light-desaturated"])
         @@ ("dark-saturated" :> dark_palette["dark-saturated"])
         @@ ("dark-desaturated" :> dark_palette["dark-desaturated"]) :
        dark_palette \in {get_monochrome_palette(dark)}})

\* color.py:81-104
get_dual_hue_palette(dark, light) ==
    The({("light-saturated" :> light_palette["light-saturated"])
         @@ ("light-desaturated" :> light_palette["light-desaturated"])
         @@ ("dark-saturated" :> dark_palette["dark-saturated"])
         @@ ("dark-desaturated" :> dark_palette["dark-desaturated"]) :
        dark_palette \in {get_monochrome_palette(dark)},
        light_palette \in {get_monochrome_palette(light)}})

\* sorted(pair) for a list of two integers: the reverse argument left out
SortedPair_Ascending(pair, reverse) ==
    IF pair[1] <= pair[2] THEN pair ELSE <<pair[2], pair[1]>>

\* sorted(pair, reverse=reverse) for a list of two integers
SortedPair(pair, reverse) ==
    IF (pair[1] <= pair[2]) = ~reverse THEN pair ELSE <<pair[2], pair[1]>>

\* color.py:116-119   hues: the first two hues of the scheme, sorted
SortedHues(divisions, start, reverse) ==
    SortedPair(SubSeq(get_hue_offsets(start, IntDiv360(divisions)), 1, 2),
               reverse)

\* get_random_color_palette that sets the primary colours only.
get_random_color_palette_NoSecondary(divisions, start, reverse, dark_primary) ==
    LET sorted_hues == SortedHues(divisions, start, reverse)
    IN  The({IF dark_primary
             THEN ("primary-saturated" :> base_palette["dark-saturated"])
                  @@ ("primary-desaturated" :> base_palette["dark-desaturated"])
             ELSE ("primary-saturated" :> base_palette["light-saturated"])
                  @@ ("primary-desaturated" :> base_palette["light-desaturated"]) :
            base_palette \in {get_dual_hue_palette(sorted_hues[1], sorted_hues[2])}})

\* color.py:106-137   The four random.randint results are arguments:
\* divisions is randint(3,4), start randint(0,359), reverse and dark_primary
\* are the two randint(0,1) == 1.
get_random_color_palette(divisions, start, reverse, dark_primary) ==
    LET sorted_hues == SortedHues(divisions, start, reverse)
    IN  The({IF dark_primary
             THEN ("primary-saturated" :> base_palette["dark-saturated"])
                  @@ ("primary-desaturated" :> base_palette["dark-desaturated"])
                  @@ ("secondary-saturated" :> base_palette["light-saturated"])
                  @@ ("secondary-desaturated" :> base_palette["light-desaturated"])
             ELSE ("primary-saturated" :> base_palette["light-saturated"])
                  @@ ("primary-desaturated" :> base_palette["light-desaturated"])
                  @@ ("secondary-saturated" :> base_palette["dark-saturated"])
                  @@ ("secondary-desaturated" :> base_palette["dark-desaturated"]) :
            base_palette \in {get_dual_hue_palette(sorted_hues[1], sorted_hues[2])}})

(***************************************************************************)
(* text_to_image.py: get_color_palette                                     *)
(***************************************************************************)

\* text_to_image.py:470, 486   "#" + hex(r)[2:].zfill(2) + ... + "ff"
HexColorOf(t) ==
    <<"#">> \o zfill(HexDigits(t[1]), 2) \o zfill(HexDigits(t[2]), 2)
            \o zfill(HexDigits(t[3]), 2) \o <<"f", "f">>

\* text_to_image.py:472-477   hue_shift, from the two randint(0,1) == 1
HueShift(triadic, negative) ==
    (IF triadic THEN 120 ELSE 30) * (IF negative THEN -1 ELSE 1)

\* background_hue without the subtraction of lines 480-481
BackgroundHue_NoSubtract(fg_hue, hue_shift) ==
    IF fg_hue + hue_shift < 0 THEN (fg_hue + hue_shift) + 360
    ELSE fg_hue + hue_shift

\* text_to_image.py:479-483   background_hue: one subtraction above 359,
\* then one addition below 0
BackgroundHue(fg_hue, hue_shift) ==
    LET shifted == fg_hue + hue_shift
        lowered == IF shifted > 359 THEN shifted - 360 ELSE shifted
    IN  IF lowered < 0 THEN lowered + 360 ELSE lowered

\* text_to_image.py:450-488   The random.randint results are arguments:
\* white_text is the first randint(0,1) == 1, step is randint(0,24), triadic
\* and negative are the other two randint(0,1) == 1.  [foreground_hue,
\* background_hue, colors]: the two locals and the tuple returned.
get_color_palette(white_text, step, triadic, negative) ==
    LET text_color == IF white_text THEN <<"#","f","f","f","f","f","f","f","f">>
                      ELSE <<"#","0","0","0","0","0","0","f","f">>
        foreground_value == IF white_text THEN 90 ELSE 30
        background_value == IF white_text THEN 30 ELSE 90
        fg_hue == step * 15
        bg_hue == BackgroundHue(fg_hue, HueShift(triadic, negative))
        \* the hue and the value of the foreground and of the background
        grounds == <<<<fg_hue, foreground_value>>, <<bg_hue, background_value>>>>
        ground_colors ==
            [k \in 1..2 |-> HexColorOf(getrgb_hsv(grounds[k][1], 100, grounds[k][2]))]
    IN  [foreground_hue |-> fg_hue, background_hue |-> bg_hue,
         colors |-> <<ground_colors[1], ground_colors[2], text_color>>]

(***************************************************************************)
(* text_to_image.py: get_bounds                                            *)
(*                                                                         *)
(* A buffer is [width, height, px] with px[x, y] the colour of the pixel   *)
(* in column x and row y.  A colour is an opaque value: get_bounds only    *)
(* compares the tuple getpixel returns with the tuple of its argument.     *)
(***************************************************************************)

\* Largest width and height of the buffers drawn for get_bounds.
MaxImageWidth == 3
MaxImageHeight == 3

\* The colours of the pixels of the drawn buffers, and a colour in none.
PixelColors == {"#00000000", "#000000ff"}
AbsentColor == "#ff0000ff"

NewImage(w, h, c) ==
    [width |-> w, height |-> h, px |-> [x \in 0..(w - 1), y \in 0..(h - 1) |-> c]]

\* text_to_image.py:158   (image.getpixel((x, y)) == color_tuple) is foreground
PixelMatches(img, x, y, c, fg) == (img.px[x, y] = c) = fg

\* The inner loops over y (lines 157-160, 164-168): some pixel of column x
\* matches.
ColumnMatches(img, x, c, fg) ==
    \E y \in 0..(img.height - 1) : PixelMatches(img, x, y, c, fg)

\* The inner loops over x (lines 172-175, 179-183): some pixel of row y
\* matches.
RowMatches(img, y, c, fg) ==
    \E x \in 0..(img.width - 1) : PixelMatches(img, x, y, c, fg)

SetMin(S) == CHOOSE m \in S : \A n \in S : m <= n
SetMax(S) == CHOOSE m \in S : \A n \in S : m >= n

RECURSIVE ScanLeftFrom(_, _, _, _)
\* text_to_image.py:153-161   for left in range(0, width), from column x:
\* the first matching column; the loop variable keeps its last value,
\* width-1, when no column matches, and the initial -1 when the range is
\* empty.
ScanLeftFrom(img, x, c, fg) ==
    IF x > img.width - 1 THEN (IF img.width > 0 THEN img.width - 1 ELSE -1)
    ELSE IF ColumnMatches(img, x, c, fg) THEN x
    ELSE ScanLeftFrom(img, x + 1, c, fg)

ScanLeft(img, c, fg) == ScanLeftFrom(img, 0, c, fg)

RECURSIVE ScanRightFrom(_, _, _, _, _)
\* text_to_image.py:163-169   for right in range(width-1, -1, -1), from
\* column x: the last matching column plus past (right += 1 before the
\* break); 0 when no column matches, -1 when the range is empty.
ScanRightFrom(img, x, c, fg, past) ==
    IF x < 0 THEN (IF img.width > 0 THEN 0 ELSE -1)
    ELSE IF ColumnMatches(img, x, c, fg) THEN x + past
    ELSE ScanRightFrom(img, x - 1, c, fg, past)

ScanRight(img, c, fg) == ScanRightFrom(img, img.width - 1, c, fg, 1)

RECURSIVE ScanTopFrom(_, _, _, _)
\* text_to_image.py:171-176   for top in range(0, height), from row y
ScanTopFrom(img, y, c, fg) ==
    IF y > img.height - 1 THEN (IF img.height > 0 THEN img.height - 1 ELSE -1)
    ELSE IF RowMatches(img, y, c, fg) THEN y
    ELSE ScanTopFrom(img, y + 1, c, fg)

ScanTop(img, c, fg) == ScanTopFrom(img, 0, c, fg)

RECURSIVE ScanBottomFrom(_, _, _, _, _)
\* text_to_image.py:178-184   for bottom in range(height-1, -1, -1), from
\* row y
ScanBottomFrom(img, y, c, fg, past) ==
    IF y < 0 THEN (IF img.height > 0 THEN 0 ELSE -1)
    ELSE IF RowMatches(img, y, c, fg) THEN y + past
    ELSE ScanBottomFrom(img, y - 1, c, fg, past)

\* The scan for the bottom without the "bottom += 1" of line 182.
ScanBottom_NoPast(img, c, fg) == ScanBottomFrom(img, img.height - 1, c, fg, 0)

ScanBottom(img, c, fg) == ScanBottomFrom(img, img.height - 1, c, fg, 1)

\* The correction of lines 186-189 with the test for equal edges left out.
CorrectBoundsNoEqual(img, l, t, r, b) ==
    <<IF l > r THEN 0 ELSE l,
      IF t > b THEN 0 ELSE t,
      IF l > r THEN img.width ELSE r,
      IF t > b THEN img.height ELSE b>>

\* text_to_image.py:185-191   correct the bounds if they are invalid
CorrectBounds(img, l, t, r, b) ==
    <<IF l > r \/ l = r THEN 0 ELSE l,
      IF t > b \/ b = t THEN 0 ELSE t,
      IF l > r \/ l = r THEN img.width ELSE r,
      IF t > b \/ b = t THEN img.height ELSE b>>

\* get_bounds with an inclusive right and bottom edge (no "+= 1").
get_bounds_Inclusive(img, c, fg) ==
    CorrectBounds(img, ScanLeft(img, c, fg), ScanTop(img, c, fg),
                  ScanRightFrom(img, img.width - 1, c, fg, 0),
                  ScanBottomFrom(img, img.height - 1, c, fg, 0))

\* text_to_image.py:138-191
get_bounds(img, c, fg) ==
    LET left == ScanLeft(img, c, fg)
        top == ScanTop(img, c, fg)
        right == ScanRight(img, c, fg)
        bottom == ScanBottom(img, c, fg)
    IN  CorrectBounds(img, left, top, right, bottom)

\* The buffers of width w and height h: every colouring.
ImagesOfSize(w, h) ==
    [width : {w}, height : {h},
     px : [(0..(w - 1)) \X (0..(h - 1)) -> PixelColors]]

BoundsIdle ==
    /\ image = NewImage(1, 1, "#00000000")
    /\ color = "#00000000"
    /\ foreground = FALSE
    /\ bounds = None

(***************************************************************************)
(* text_to_image.py: get_word_wrap, part 1: the lines                      *)
(*                                                                         *)
(* re, str and textwrap are modelled on strings over the characters the    *)
(* texts are drawn from: the letter "a", the hyphen "-" and the space.     *)
(***************************************************************************)

\* The characters of textwrap._whitespace that TLA+ can write.
Whitespace == {" ", "\t", "\n", "\r", "\f"}
\* [^\d\W]: a letter.
Letters == {"a"}
\* \w: a letter, a digit or the underscore.
WordChars == Letters \cup {"0", "1", "2", "3", "4", "5", "6", "7", "8", "9", "_"}
\* textwrap: word_punct = [\w!"'&.,?]
WordPunct == WordChars \cup {"!", "\"", "'", "&", ".", ",", "?"}

IsSpace(c) == c \in Whitespace

\* The character of t at position k (from 1), "" outside the string.
CharAt(t, k) == IF k >= 1 /\ k <= Len(t) THEN t[k] ELSE ""

RECURSIVE lstrip(_)
lstrip(t) == IF t # <<>> /\ IsSpace(Head(t)) THEN lstrip(Tail(t)) ELSE t

RECURSIVE rstrip(_)
rstrip(t) ==
    IF t # <<>> /\ IsSpace(t[Len(t)]) THEN rstrip(SubSeq(t, 1, Len(t) - 1)) ELSE t

\* str.strip()
strip(t) == rstrip(lstrip(t))

RECURSIVE CollapseWhitespace(_)
\* re.sub(r"\s+", " ", text): every run of whitespace becomes one space.
CollapseWhitespace(t) ==
    IF t = <<>> THEN <<>>
    ELSE IF IsSpace(Head(t))
         THEN <<" ">> \o CollapseWhitespace(lstrip(t))
         ELSE <<Head(t)>> \o CollapseWhitespace(Tail(t))

RECURSIVE split(_, _)
\* str.split(sep) for a one-character separator: the pieces between the
\* separators, empty pieces included ("".split(" ") is [""]).
split(t, sep) ==
    IF \E i \in 1..Len(t) : t[i] = sep
    THEN LET i == CHOOSE k \in 1..Len(t) :
                      t[k] = sep /\ \A m \in 1..(k - 1) : t[m] # sep
         IN  <<SubSeq(t, 1, i - 1)>> \o split(SubSeq(t, i + 1, Len(t)), sep)
    ELSE <<t>>

\* text_to_image.py:307   the words of the text
Words(t) == split(strip(CollapseWhitespace(t)), " ")

\* text_to_image.py:308-309   len of the first word sorted by length,
\* longest first: the length of the longest word.
LongestWord(t) == SetMax({Len(Words(t)[i]) : i \in 1..Len(Words(t))})

\* text_to_image.py:309-312   the wrap width in characters
WrapCharacters(t, minimum) ==
    IF LongestWord(t) < minimum THEN minimum ELSE LongestWord(t)

\* textwrap.TextWrapper._munge_whitespace: every whitespace character
\* becomes a space (expand_tabs, replace_whitespace).
MungeWhitespace(t) == [i \in 1..Len(t) |-> IF IsSpace(t[i]) THEN " " ELSE t[i]]

RECURSIVE HyphenRun(_, _)
\* The number of hyphens in a row from position j.
HyphenRun(t, j) == IF CharAt(t, j) = "-" THEN 1 + HyphenRun(t, j + 1) ELSE 0

\* wordsep_re: (?<=[\w!"'&.,?]) -{2,} (?=\w) from position j, and the
\* lookahead (?=-{2,}\w) after a word that ends at j-1.
EmDashAt(t, j) ==
    /\ CharAt(t, j - 1) \in WordPunct
    /\ HyphenRun(t, j) >= 2
    /\ CharAt(t, j + HyphenRun(t, j)) \in WordChars

\* wordsep_re: the hyphen at position j ends a chunk of a hyphenated word:
\* -(?: (?<=[^\d\W]{2}-) | (?<=[^\d\W]-[^\d\W]-)) (?= [^\d\W] -? [^\d\W])
HyphenBreakAt(t, j) ==
    /\ CharAt(t, j) = "-"
    /\ \/ CharAt(t, j - 2) \in Letters /\ CharAt(t, j - 1) \in Letters
       \/ /\ CharAt(t, j - 3) \in Letters
          /\ CharAt(t, j - 2) = "-"
          /\ CharAt(t, j - 1) \in Letters
    /\ CharAt(t, j + 1) \in Letters
    /\ \/ CharAt(t, j + 2) \in Letters
       \/ CharAt(t, j + 2) = "-" /\ CharAt(t, j + 3) \in Letters

RECURSIVE SpaceRunEnd(_, _)
\* The last position of the run of spaces that starts at i.
SpaceRunEnd(t, i) == IF IsSpace(CharAt(t, i + 1)) THEN SpaceRunEnd(t, i + 1) ELSE i

RECURSIVE WordChunkEnd(_, _)
\* The word alternative of wordsep_re, non-greedy: the chunk that holds
\* positions up to j-1 ends at the first j where a hyphen break, the end of
\* the word or an em-dash follows.
WordChunkEnd(t, j) ==
    IF HyphenBreakAt(t, j) THEN j
    ELSE IF j > Len(t) \/ IsSpace(t[j]) THEN j - 1
    ELSE IF EmDashAt(t, j) THEN j - 1
    ELSE WordChunkEnd(t, j + 1)

\* The last position of the chunk wordsep_re matches at position i.
ChunkEnd(t, i) ==
    IF IsSpace(t[i]) THEN SpaceRunEnd(t, i)
    ELSE IF EmDashAt(t, i) THEN i + HyphenRun(t, i) - 1
    ELSE WordChunkEnd(t, i + 1)

RECURSIVE ChunksFrom(_, _)
ChunksFrom(t, i) ==
    IF i > Len(t) THEN <<>>
    ELSE <<SubSeq(t, i, ChunkEnd(t, i))>> \o ChunksFrom(t, ChunkEnd(t, i) + 1)

\* textwrap.TextWrapper._split: the text cut into whitespace runs, words
\* and the hyphen-delimited pieces of words.
SplitChunks(t) == ChunksFrom(t, 1)

\* chunk.strip() == ''
IsBlank(c) == \A i \in 1..Len(c) : IsSpace(c[i])

RECURSIVE Concat(_)
\* ''.join(cur_line)
Concat(cs) == IF cs = <<>> THEN <<>> ELSE Head(cs) \o Concat(Tail(cs))

RECURSIVE FillLine(_, _, _, _)
\* _wrap_chunks, inner loop: chunks go on the current line while
\* cur_len + len(chunk) <= width.
FillLine(chunks, cur, cur_len, width) ==
    IF chunks # <<>> /\ cur_len + Len(Head(chunks)) <= width
    THEN FillLine(Tail(chunks), Append(cur, Head(chunks)),
                  cur_len + Len(Head(chunks)), width)
    ELSE [line |-> cur, rest |-> chunks]

\* _handle_long_word with break_long_words=False: a chunk longer than the
\* width goes on a line of its own when the current line is empty.
HandleLongWord(f, width) ==
    IF f.rest # <<>> /\ Len(Head(f.rest)) > width /\ f.line = <<>>
    THEN [line |-> <<Head(f.rest)>>, rest |-> Tail(f.rest)]
    ELSE f

\* _wrap_chunks: the trailing whitespace chunk of a line is dropped.
DropTrailingBlank(cur) ==
    IF cur # <<>> /\ IsBlank(cur[Len(cur)]) THEN SubSeq(cur, 1, Len(cur) - 1) ELSE cur

RECURSIVE WrapChunks(_, _, _)
\* textwrap.TextWrapper._wrap_chunks (drop_whitespace, no max_lines).
WrapChunks(chunks, lines, width) ==
    IF chunks = <<>> THEN lines
    ELSE LET start == IF IsBlank(Head(chunks)) /\ lines # <<>>
                      THEN Tail(chunks) ELSE chunks
             f == HandleLongWord(FillLine(start, <<>>, 0, width), width)
             cur == DropTrailingBlank(f.line)
         IN  WrapChunks(f.rest,
                        IF cur # <<>> THEN Append(lines, Concat(cur)) ELSE lines,
                        width)

\* textwrap.wrap(text, width=width, break_long_words=False)
textwrap_wrap(t, width) == WrapChunks(SplitChunks(MungeWhitespace(t)), <<>>, width)

\* text_to_image.py:314   the wrapped text
WrapLines(t, minimum) == textwrap_wrap(strip(t), WrapCharacters(t, minimum))

(***************************************************************************)
(* PIL.ImageFont, as far as the library reads it.                          *)
(*                                                                         *)
(* A font is a table of glyph metrics in units of Em per em.  Setting a    *)
(* size scales the metrics and rounds every glyph's advance to whole       *)
(* pixels (hinted advances), so the measured widths do not decrease with   *)
(* the size but are not proportional to it.                                *)
(***************************************************************************)

\* Font units per em of the fonts drawn.
Em == 4

\* FreeTypeFont raises ValueError for a size below 1 ("font size must be
\* greater than 0"); font_variant builds a FreeTypeFont.
MinFontSize == 1

\* The characters of the texts drawn.
Alphabet == {"a", "-", " "}

\* The rows a glyph inks, <<first, one past the last>> in font units: the
\* letter stands on the base line, the hyphen is a stroke above it, the space
\* has no ink.
GlyphInk(c, base) ==
    IF c = "a" THEN <<base - 2, base>>
    ELSE IF c = "-" THEN <<base - 2, base - 1>>
    ELSE <<0, 0>>

\* Two fonts: a proportional one and a monospaced one.  adv is the advance
\* of a glyph, top and bottom are the rows of the reference glyphs' box and
\* ink the rows of a glyph's ink, which lie inside that box.
Fonts ==
    {[name |-> "proportional", adv |-> [c \in Alphabet |->
                 IF c = "a" THEN 3 ELSE 1], top |-> 1, bottom |-> 4,
      ink |-> [c \in Alphabet |-> GlyphInk(c, 4)]],
     [name |-> "monospace", adv |-> [c \in Alphabet |-> 2],
      top |-> 0, bottom |-> 5,
      ink |-> [c \in Alphabet |-> GlyphInk(c, 4)]]}

\* Division rounded to the nearest integer, halves up (n >= 0, d > 0).
RoundDiv(n, d) == ((2 * n) + d) \div (2 * d)

\* font.font_variant(size=size) succeeds.
CanSetSize(size) == size >= MinFontSize

\* The advance in pixels of glyph c at a size.
GlyphAdvance(f, size, c) == RoundDiv(f.adv[c] * size, Em)

RECURSIVE TextAdvance(_, _, _)
\* The advance of a string: the sum of its glyphs' advances.
TextAdvance(f, size, t) ==
    IF t = <<>> THEN 0
    ELSE GlyphAdvance(f, size, Head(t)) + TextAdvance(f, size, Tail(t))

\* The rows of the box of the reference glyphs (TEXT_REF) at a size.
RefTop(f, size) == (f.top * size) \div Em
RefBottom(f, size) == (f.bottom * size) \div Em

\* altered_font.getbbox(t): (left, top, right, bottom).  The library reads
\* left and right of a line and top and bottom of TEXT_REF only; the empty
\* string measures (0, 0, 0, 0).
getbbox(f, size, t) ==
    IF t = <<>> THEN <<0, 0, 0, 0>>
    ELSE <<0, RefTop(f, size), TextAdvance(f, size, t), RefBottom(f, size)>>

\* text_to_image.py:322-324, 330-331   (ref_right+1) - ref_left
LineWidth(f, size, line) == (getbbox(f, size, line)[3] + 1) - getbbox(f, size, line)[1]

(***************************************************************************)
(* text_to_image.py: get_word_wrap, part 2: the font size                  *)
(***************************************************************************)

\* text_to_image.py:316   math.floor(image_width/(characters*2)); the true
\* quotient of two small integers floors to the integer quotient.
ConservativeSize(width, characters) == width \div (characters * 2)

RECURSIVE LargestLineFrom(_, _, _, _, _, _)
\* text_to_image.py:318-325   the line that measures widest at font_size
\* (the first of them when several do), with its width.
LargestLineFrom(f, size, lines, i, line_width, largest_line) ==
    IF i > Len(lines) THEN [line_width |-> line_width, largest_line |-> largest_line]
    ELSE IF LineWidth(f, size, lines[i]) > line_width
         THEN LargestLineFrom(f, size, lines, i + 1,
                              LineWidth(f, size, lines[i]), lines[i])
         ELSE LargestLineFrom(f, size, lines, i + 1, line_width, largest_line)

LargestLine(f, size, lines) == LargestLineFrom(f, size, lines, 1, 0, <<>>)

\* The measured width of a line is the same at every size: no glyph of it
\* has an advance (the empty line measures 1 at every size).
WidthNeverGrows(f, line) == \A i \in 1..Len(line) : f.adv[line[i]] = 0

RECURSIVE GrowFontSize(_, _, _, _, _)
\* text_to_image.py:327-331   while line_width < image_width: font_size += 1
\* and measure largest_line again.  The loop never ends when the width
\* cannot grow: the status is then "loop".
GrowFontSize(f, line, width, size, line_width) ==
    IF ~(line_width < width) THEN [status |-> "ok", font_size |-> size]
    ELSE IF WidthNeverGrows(f, line) /\ LineWidth(f, size + 1, line) < width
         THEN [status |-> "loop", font_size |-> size]
         ELSE GrowFontSize(f, line, width, size + 1,
                           LineWidth(f, size + 1, line))

\* get_word_wrap that wraps one character wider than characters.
get_word_wrap_WideLines(t, f, width, minimum) ==
    LET characters == WrapCharacters(t, minimum)
        lines == textwrap_wrap(strip(t), characters + 1)
        first == ConservativeSize(width, characters)
        largest == LargestLine(f, first, lines)
        grown == GrowFontSize(f, largest.largest_line, width, first,
                              largest.line_width)
    IN  [status |-> grown.status, lines |-> lines,
         font_size |-> grown.font_size - 1]

\* text_to_image.py:289-334   [status, lines, font_size]: status is "ok"
\* when the function returns (lines, font_size), "raise" when it raises
\* (textwrap.wrap for a width below 1, font_variant for a size below 1) and
\* "loop" when the search for the font size never ends.
get_word_wrap(t, f, width, minimum) ==
    LET characters == WrapCharacters(t, minimum)
    IN  IF characters <= 0
        THEN [status |-> "raise", lines |-> <<>>, font_size |-> 0]
        ELSE
        LET lines == WrapLines(t, minimum)
            first == ConservativeSize(width, characters)
        IN  IF lines # <<>> /\ ~CanSetSize(first)
            THEN [status |-> "raise", lines |-> lines, font_size |-> first]
            ELSE
            LET largest == LargestLine(f, first, lines)
                grown == GrowFontSize(f, largest.largest_line, width, first,
                                      largest.line_width)
            IN  [status |-> grown.status, lines |-> lines,
                 font_size |-> grown.font_size - 1]

(***************************************************************************)
(* PIL.Image and PIL.ImageDraw, as far as the text functions use them.     *)
(***************************************************************************)

\* The colour of the scratch images (text_to_image.py:219, 232, 275, 370).
Transparent == "#00000000"

\* The colours whose alpha channel is 00; every other colour drawn has
\* alpha ff.
IsTransparent(c) == c \in {"#00000000", "#ffffff00"}

\* The rows glyph c inks at a size, relative to the origin of the text.  A
\* thin stroke can vanish at a small size.
InkRows(f, size, c) ==
    ((f.ink[c][1] * size) \div Em)..(((f.ink[c][2] * size) \div Em) - 1)

\* Pixel (x, y), relative to the origin of the text, is inked by a glyph of
\* t: the glyph inks its rows over the whole of its advance.
InkAt(f, size, t, x, y) ==
    \E i \in 1..Len(t) :
        LET pen == TextAdvance(f, size, SubSeq(t, 1, i - 1))
        IN  /\ x >= pen
            /\ x < pen + GlyphAdvance(f, size, t[i])
            /\ y \in InkRows(f, size, t[i])

\* ImageDraw.text(xy, text, fill, font): the inked pixels inside the image
\* take the fill colour.
DrawText(img, xy, t, fill, f, size) ==
    [img EXCEPT !.px = Table(
        [x \in 0..(img.width - 1), y \in 0..(img.height - 1) |->
            IF InkAt(f, size, t, x - xy[1], y - xy[2]) THEN fill
            ELSE img.px[x, y]])]

\* Image.crop((left, top, right, bottom)): the part of the box outside the
\* image is transparent.
Crop(img, left, top, right, bottom) ==
    [width |-> right - left, height |-> bottom - top,
     px |-> Table(
        [x \in 0..((right - left) - 1), y \in 0..((bottom - top) - 1) |->
            IF /\ (x + left) \in 0..(img.width - 1)
               /\ (y + top) \in 0..(img.height - 1)
            THEN img.px[x + left, y + top]
            ELSE Transparent])]

\* Image.alpha_composite(im, dest) in place: im over the image with its top
\* left corner at dest; the part of im outside the image is clipped, and a
\* transparent pixel of im leaves the pixel under it as it is.
AlphaComposite(img, im, dest) ==
    [img EXCEPT !.px = Table(
        [x \in 0..(img.width - 1), y \in 0..(img.height - 1) |->
            IF /\ (x - dest[1]) \in 0..(im.width - 1)
               /\ (y - dest[2]) \in 0..(im.height - 1)
               /\ ~IsTransparent(im.px[x - dest[1], y - dest[2]])
            THEN im.px[x - dest[1], y - dest[2]]
            ELSE img.px[x, y]])]

\* math.floor(n * space) for an integer n and the fraction space.
FloorTimes(n, sp) == (n * sp[1]) \div sp[2]

\* image.size
Size(img) == <<img.width, img.height>>

(***************************************************************************)
(* text_to_image.py: get_text_line_image                                   *)
(***************************************************************************)

\* text_to_image.py:238-244   where the text is pasted, by justification
JustifiedX(just, width, text_width) ==
    IF just = "l" THEN 1
    ELSE IF just = "r" THEN width - (1 + text_width)
    ELSE (width - text_width) \div 2

\* get_text_line_image whose height comes from the bounds of the text
\* (top and bottom of get_bounds) and not from the reference glyphs.
get_text_line_image_TextHeight(t, f, size, width, fg, bg, sp, just) ==
    IF ~CanSetSize(size) THEN [status |-> "raise"]
    ELSE
    LET CropText(scratch, b) == Crop(scratch, b[1], b[2], b[3] + 1, b[4] + 1)
        Paste(cropped) ==
            AlphaComposite(NewImage(width, FloorTimes(cropped.height, sp), bg),
                cropped, <<JustifiedX(just, width, cropped.width), 1>>)
    IN  The({[status |-> "ok", image |-> Paste(cropped)] :
            cropped \in {The({CropText(scratch, b) :
                             b \in {get_bounds(scratch, Transparent, FALSE)}}) :
                scratch \in {DrawText(NewImage(width * 2, size * 4, Transparent),
                                      <<1, 1>>, t, fg, f, size)}}})

\* text_to_image.py:193-246   [status, image]: status is "raise" when
\* font_variant raises for the size, "ok" when the image is returned.
\* scratch is the image the text is drawn on (lines 219-224), b what
\* get_bounds returns for it (line 229) and cropped the cropped text
\* (line 230).
get_text_line_image(t, f, size, width, fg, bg, sp, just) ==
    IF ~CanSetSize(size) THEN [status |-> "raise"]
    ELSE
    LET ref_top == RefTop(f, size)
        ref_bottom == RefBottom(f, size) + 1
        height == FloorTimes(ref_bottom - ref_top, sp)
        CropText(scratch, b) == Crop(scratch, b[1], ref_top, b[3] + 1, ref_bottom)
        Paste(cropped) ==
            AlphaComposite(NewImage(width, height, bg), cropped,
                <<JustifiedX(just, width, cropped.width), 1>>)
    IN  The({[status |-> "ok", image |-> Paste(cropped)] :
            cropped \in {The({CropText(scratch, b) :
                             b \in {get_bounds(scratch, Transparent, FALSE)}}) :
                scratch \in {DrawText(NewImage(width * 2, size * 4, Transparent),
                                      <<1, 1>>, t, fg, f, size)}}})

(***************************************************************************)
(* text_to_image.py: get_text_multiline_image                              *)
(***************************************************************************)

RECURSIVE StackLines(_, _, _, _, _, _, _, _, _, _)
\* text_to_image.py:280-286   the loop over the lines, from line i: a line
\* image for each line (line), composited at (0, (i-1) * strip_height).
StackLines(img, lines, i, strip_height, f, size, width, fg, sp, just) ==
    IF i > Len(lines) THEN img
    ELSE The({StackLines(pasted, lines, i + 1, strip_height, f, size, width,
                         fg, sp, just) :
             pasted \in {AlphaComposite(img, line.image,
                                        <<0, (i - 1) * strip_height>>) :
                 line \in {get_text_line_image(lines[i], f, size, width, fg,
                                               Transparent, sp, just)}}})

\* The height of the box of the reference glyphs, the space left out.
RefImageHeight_NoSpace(f, size, sp) == (RefBottom(f, size) + 1) - RefTop(f, size)

\* text_to_image.py:273-276   ref_image.size[1]: of the reference line
\* (the text "abc" in an image 100 wide) only the height is read, which is
\* image_height of get_text_line_image (line 233).
RefImageHeight(f, size, sp) == FloorTimes((RefBottom(f, size) + 1) - RefTop(f, size), sp)

\* text_to_image.py:248-287   [status, image]: "raise" when font_variant
\* raises for the size (in the call for the reference line).
get_text_multiline_image(lines, f, size, width, fg, bg, sp, just) ==
    IF ~CanSetSize(size) THEN [status |-> "raise"]
    ELSE
    LET strip_height == RefImageHeight(f, size, sp)
    IN  [status |-> "ok",
         image |-> StackLines(NewImage(width, strip_height * Len(lines), bg),
                       lines, 1, strip_height, f, size, width, fg, sp, just)]

(***************************************************************************)
(* text_to_image.py: text_image_fit_box                                    *)
(***************************************************************************)

\* text_to_image.py:420   math.floor(font_size * 0.9) - 1
LowFontSize(size) == ((9 * size) \div 10) - 1

\* text_to_image.py:427   (ref_bottom + 1) - ref_top
LineHeight(f, size) == (RefBottom(f, size) + 1) - RefTop(f, size)

\* calc_height > image_height with calc_height the height of the lines
\* without the space between them.
TooHigh_NoSpace(f, size, count, sp, height) ==
    (LineHeight(f, size) * count) > height

\* text_to_image.py:429, 411, 423   calc_height > image_height, for
\* calc_height = line_height + (len(lines) - 1) * (line_height * space);
\* both sides are multiplied by the denominator of space.
TooHigh(f, size, count, sp, height) ==
    (LineHeight(f, size) * sp[2]) + ((count - 1) * (LineHeight(f, size) * sp[1]))
        > height * sp[2]

RECURSIVE LowerFontSize(_, _, _, _, _, _, _)
\* text_to_image.py:423-429   the inner loop.  size is font_size at the
\* loop test and fits is calc_height <= image_height there.  [status,
\* font_size, fits]: "raise" when font_variant raises for a size.
LowerFontSize(f, size, low, count, sp, height, fits) ==
    IF fits \/ ~(size > low \/ count = 1)
    THEN [status |-> "ok", font_size |-> size, fits |-> fits]
    ELSE IF ~CanSetSize(size - 1)
    THEN [status |-> "raise", font_size |-> size - 1, fits |-> FALSE]
    ELSE LowerFontSize(f, size - 1, low, count, sp, height,
                       ~TooHigh(f, size - 1, count, sp, height))

RECURSIVE FitCharacters(_, _, _, _, _, _)
\* text_to_image.py:411-429   the outer loop, entered with characters
\* already incremented; wrapped is what get_word_wrap returns and lowered
\* the state the inner loop ends in.  [status, characters, lines,
\* font_size]: "raise" and "loop" as get_word_wrap and font_variant give
\* them.
FitCharacters(t, f, width, height, sp, characters) ==
    LET Lowered(wrapped) ==
            LowerFontSize(f, wrapped.font_size + 1,
                LowFontSize(wrapped.font_size), Len(wrapped.lines), sp,
                height, FALSE)
        Fit(wrapped, lowered) ==
            IF lowered.status # "ok" \/ lowered.fits
            THEN [status |-> lowered.status, characters |-> characters,
                  lines |-> wrapped.lines, font_size |-> lowered.font_size]
            ELSE FitCharacters(t, f, width, height, sp, characters + 1)
    IN  The({IF wrapped.status # "ok"
             THEN [status |-> wrapped.status, characters |-> characters,
                   lines |-> wrapped.lines, font_size |-> wrapped.font_size]
             ELSE The({Fit(wrapped, lowered) : lowered \in {Lowered(wrapped)}}) :
            wrapped \in {get_word_wrap(t, f, width, characters)}})

\* The cropped text pasted at the top whatever vertical is.
VerticalY_Top(vert, height, cropped_height) == 0

\* text_to_image.py:440-445   where the cropped text is pasted
VerticalY(vert, height, cropped_height) ==
    IF vert = "t" THEN 0
    ELSE IF vert = "b" THEN height - cropped_height
    ELSE (height - cropped_height) \div 2

\* text_to_image.py:379-448   [status, characters, lines, font_size, image]:
\* status is "ok" when the image is returned, "raise" when the function
\* raises and "loop" when it never returns.  fit is the state the loops of
\* lines 411-429 end in, lined the image of the lines (line 431), b what
\* get_bounds returns for it (line 434) and cropped the cropped image
\* (line 436).
text_image_fit_box(t, f, width, height, fg, bg, sp, just, vert, minimum) ==
    LET Lined(fit) ==
            get_text_multiline_image(fit.lines, f, fit.font_size, width, fg,
                                     Transparent, sp, just).image
        CropLines(lined, b) == Crop(lined, 0, b[2], lined.width, b[4])
        Paste(cropped) ==
            AlphaComposite(NewImage(width, height, bg), cropped,
                <<0, VerticalY(vert, height, cropped.height)>>)
        Render(fit) ==
            The({[status |-> "ok", characters |-> fit.characters,
                  lines |-> fit.lines, font_size |-> fit.font_size,
                  image |-> Paste(cropped)] :
                cropped \in {The({CropLines(lined, b) :
                                 b \in {get_bounds(lined, Transparent, FALSE)}}) :
                    lined \in {Lined(fit)}}})
    IN  The({IF fit.status # "ok" THEN fit ELSE Render(fit) :
            fit \in {FitCharacters(t, f, width, height, sp, minimum)}})

TextIdle ==
    /\ text = <<>>
    /\ font = "None"
    /\ image_width = 0
    /\ minimum_characters = 1

WrapIdle == wrap = [status |-> "none"]

RenderIdle ==
    /\ font_size = 0
    /\ image_height = 0
    /\ space = <<1, 1>>
    /\ justified = "c"
    /\ vertical = "c"
    /\ text_foreground = "#000000ff"
    /\ background = "#ffffff00"
    /\ rendered = [status |-> "none"]
    /\ prev_size = <<>>

PaletteIdle ==
    /\ called = "None"
    /\ palette = "None"
    /\ dark_hue = 0
    /\ light_hue = 0
    /\ foreground_hue = 0
    /\ background_hue = 0

FontIdle ==
    /\ font_name = <<>>
    /\ fonts = <<>>
    /\ font_style = <<>>
    /\ bold = FALSE
    /\ italic = FALSE
    /\ image_font = "None"

SearchIdle ==
    /\ text_lines = <<>>
    /\ search = [font_size |-> 0, line_width |-> 0, largest_line |-> <<>>]

(***************************************************************************)
(* Arguments drawn for the functions of color.py.                          *)
(***************************************************************************)
HueInputs == (0 - MaxHue)..MaxHue
OffsetHueInputs == (0 - MaxOffsetHue)..((FullCircle - 1) + MaxOffsetHue)
OffsetInputs == 1..FullCircle
Channels == 0..255
\* Channel values at the edges of the one-digit / two-digit cases.
EdgeChannels == {0, 12, 13, 14, 15, 16, 255}
\* Triples with at most one channel outside EdgeChannels.
RGBInputs ==
    {t \in Channels \X EdgeChannels \X EdgeChannels : TRUE}
    \cup {t \in EdgeChannels \X Channels \X EdgeChannels : TRUE}
    \cup {t \in EdgeChannels \X EdgeChannels \X Channels : TRUE}

ColorIdle ==
    /\ hue = 0
    /\ offset = 1
    /\ hue_ret = None
    /\ hues = None
    /\ rgb = <<0, 0, 0>>
    /\ hex_color = None

(***************************************************************************)
(* get_hue_in_range                                                        *)
(***************************************************************************)
InitHue ==
    /\ pc = "call"
    /\ hue \in HueInputs
    /\ offset = 1
    /\ hue_ret = None
    /\ hues = None
    /\ rgb = <<0, 0, 0>>
    /\ hex_color = None
    /\ BoundsIdle
    /\ TextIdle
    /\ WrapIdle
    /\ RenderIdle
    /\ PaletteIdle
    /\ FontIdle
    /\ SearchIdle

GetHueInRange ==
    /\ pc = "call"
    /\ hue_ret' = get_hue_in_range(hue)
    /\ pc' = "done"
    /\ UNCHANGED <<hue, offset, hues, rgb, hex_color, boundsVars, textVars, wrapVars,
                   renderVars, renderedVars,
                   paletteVars, fontVars, searchVars>>

NextHue == GetHueInRange

SpecHue == InitHue /\ [][NextHue]_vars

(***************************************************************************)
(* get_hue_offsets                                                         *)
(***************************************************************************)
InitOffsets ==
    /\ pc = "call"
    /\ hue \in OffsetHueInputs
    /\ offset \in OffsetInputs
    /\ hue_ret = None
    /\ hues = None
    /\ rgb = <<0, 0, 0>>
    /\ hex_color = None
    /\ BoundsIdle
    /\ TextIdle
    /\ WrapIdle
    /\ RenderIdle
    /\ PaletteIdle
    /\ FontIdle
    /\ SearchIdle

GetHueOffsets ==
    /\ pc = "call"
    /\ hues' = get_hue_offsets(hue, offset)
    /\ pc' = "done"
    /\ UNCHANGED <<hue, offset, hue_ret, rgb, hex_color, boundsVars, textVars, wrapVars,
                   renderVars, renderedVars,
                   paletteVars, fontVars, searchVars>>

NextOffsets == GetHueOffsets

SpecOffsets == InitOffsets /\ [][NextOffsets]_vars

(***************************************************************************)
(* rgb_to_hex_color                                                        *)
(***************************************************************************)
InitHex ==
    /\ pc = "call"
    /\ hue = 0
    /\ offset = 1
    /\ hue_ret = None
    /\ hues = None
    /\ rgb \in RGBInputs
    /\ hex_color = None
    /\ BoundsIdle
    /\ TextIdle
    /\ WrapIdle
    /\ RenderIdle
    /\ PaletteIdle
    /\ FontIdle
    /\ SearchIdle

RgbToHexColor ==
    /\ pc = "call"
    /\ hex_color' = rgb_to_hex_color(rgb)
    /\ pc' = "done"
    /\ UNCHANGED <<hue, offset, hue_ret, hues, rgb, boundsVars, textVars, wrapVars,
                   renderVars, renderedVars,
                   paletteVars, fontVars, searchVars>>

NextHex == RgbToHexColor

SpecHex == InitHex /\ [][NextHex]_vars

(***************************************************************************)
(* get_bounds                                                              *)
(***************************************************************************)
InitBounds ==
    /\ pc = "call"
    /\ ColorIdle
    /\ \E w \in 1..MaxImageWidth, h \in 1..MaxImageHeight :
           image \in ImagesOfSize(w, h)
    /\ color \in PixelColors \cup {AbsentColor}
    /\ foreground \in BOOLEAN
    /\ bounds = None
    /\ TextIdle
    /\ WrapIdle
    /\ RenderIdle
    /\ PaletteIdle
    /\ FontIdle
    /\ SearchIdle

GetBounds ==
    /\ pc = "call"
    /\ bounds' = get_bounds(image, color, foreground)
    /\ pc' = "done"
    /\ UNCHANGED <<colorVars, image, color, foreground, textVars, wrapVars,
                   renderVars, renderedVars,
                   paletteVars, fontVars, searchVars>>

NextBounds == GetBounds

SpecBounds == InitBounds /\ [][NextBounds]_vars

\* The pixels get_bounds looks for: equal to the colour when foreground is
\* true, different from it when foreground is false.
Matching ==
    {p \in (0..(image.width - 1)) \X (0..(image.height - 1)) :
        IF foreground THEN image.px[p] = color ELSE image.px[p] # color}

(***************************************************************************)
(* C1: when some pixel matches, get_bounds returns the smallest matching   *)
(* column and row as left and top, and one past the largest matching       *)
(* column and row as right and bottom.                                     *)
(***************************************************************************)
C1_TightBounds ==
    (pc = "done" /\ Matching # {}) =>
        /\ bounds[1] = SetMin({p[1] : p \in Matching})
        /\ bounds[2] = SetMin({p[2] : p \in Matching})
        /\ bounds[3] = SetMax({p[1] : p \in Matching}) + 1
        /\ bounds[4] = SetMax({p[2] : p \in Matching}) + 1

\* One matching pixel in the middle of a 3 x 3 buffer: the box is that pixel.
C1_Witness ==
    /\ pc = "done" /\ bounds = <<1, 1, 2, 2>>
    /\ image.width = 3 /\ image.height = 3
    /\ Matching = {<<1, 1>>}

(***************************************************************************)
(* C2: when no pixel matches, get_bounds returns the full buffer           *)
(* (0, 0, width, height), for buffers of width 1 or height 1 too.          *)
(***************************************************************************)
C2_NoMatchFullBounds ==
    (pc = "done" /\ Matching = {}) =>
        bounds = <<0, 0, image.width, image.height>>

\* No match in a buffer one pixel wide, where the scans meet (left = right).
C2_Witness ==
    /\ pc = "done" /\ Matching = {} /\ foreground
    /\ image.width = 1 /\ image.height = 2
    /\ bounds = <<0, 0, 1, 2>>

(***************************************************************************)
(* get_word_wrap                                                           *)
(***************************************************************************)

\* Longest text drawn when the lines are examined.
MaxTextLen == 7
\* Longest text and widest image drawn when the font size is examined.
MaxShortTextLen == 4
MaxWidth == 12
\* Largest minimum_characters drawn.
MaxMinimumCharacters == 3

\* An image wide enough for the first font size to be at least 1.
WideWidth == 2 * (MaxTextLen + MaxMinimumCharacters + 1)

GetWordWrap ==
    /\ pc = "call"
    /\ wrap' = get_word_wrap(text, font, image_width, minimum_characters)
    /\ pc' = "done"
    /\ UNCHANGED <<colorVars, boundsVars, textVars, renderVars, renderedVars,
                   paletteVars, fontVars, searchVars>>

\* Every text up to MaxTextLen in an image of width WideWidth.
InitWrap ==
    /\ pc = "call"
    /\ ColorIdle
    /\ BoundsIdle
    /\ \E k \in 0..MaxTextLen : text \in [1..k -> Alphabet]
    /\ font \in Fonts
    /\ image_width = WideWidth
    /\ minimum_characters \in 1..MaxMinimumCharacters
    /\ WrapIdle
    /\ RenderIdle
    /\ PaletteIdle
    /\ FontIdle
    /\ SearchIdle

NextWrap == GetWordWrap

SpecWrap == InitWrap /\ [][NextWrap]_vars

\* Every text up to MaxShortTextLen in every width up to MaxWidth.
InitSize ==
    /\ pc = "call"
    /\ ColorIdle
    /\ BoundsIdle
    /\ \E k \in 0..MaxShortTextLen : text \in [1..k -> Alphabet]
    /\ font \in Fonts
    /\ image_width \in 1..MaxWidth
    /\ minimum_characters \in 1..MaxMinimumCharacters
    /\ WrapIdle
    /\ RenderIdle
    /\ PaletteIdle
    /\ FontIdle
    /\ SearchIdle

NextSize == GetWordWrap

SpecSize == InitSize /\ [][NextSize]_vars

\* get_word_wrap returned (lines, font_size).
WrapReturned == pc = "done" /\ wrap.status = "ok"

\* The width of the widest of the lines at a size.
WidestLine(f, size, lines) ==
    SetMax({0} \cup {LineWidth(f, size, lines[i]) : i \in 1..Len(lines)})

(***************************************************************************)
(* C3: the font size get_word_wrap returns is the largest at which the     *)
(* widest of the returned lines measures less than image_width: it does at *)
(* that size, and at the next size it measures image_width or more.        *)
(***************************************************************************)
C3_LargestFittingSize ==
    (WrapReturned /\ wrap.lines # <<>>) =>
        /\ WidestLine(font, wrap.font_size, wrap.lines) < image_width
        /\ WidestLine(font, wrap.font_size + 1, wrap.lines) >= image_width

\* The words of a string that are not empty (a blank text has none).
NonEmptyWords(t) == SelectSeq(Words(t), LAMBDA w : w # <<>>)

RECURSIVE WordsOfLines(_)
\* The words of the lines, line after line.
WordsOfLines(lines) ==
    IF lines = <<>> THEN <<>>
    ELSE NonEmptyWords(Head(lines)) \o WordsOfLines(Tail(lines))

\* max(minimum_characters, length of the longest word of the text)
LineLimit == Max(minimum_characters, LongestWord(text))

(***************************************************************************)
(* C4: get_word_wrap wraps into lines of at most max(minimum_characters,   *)
(* longest word) characters and never breaks a word: the words of the      *)
(* returned lines, in order, are the whitespace-delimited words of the     *)
(* text, each whole inside one line.                                       *)
(***************************************************************************)
C4_WordsKeptWhole ==
    WrapReturned =>
        /\ \A i \in 1..Len(wrap.lines) : Len(wrap.lines[i]) <= LineLimit
        /\ WordsOfLines(wrap.lines) = NonEmptyWords(text)

(***************************************************************************)
(* C5, as claimed: no returned line has fewer characters than              *)
(* minimum_characters, or, when the longest word is longer than that, than *)
(* the longest word.                                                       *)
(***************************************************************************)
C5_NoShorterLine ==
    WrapReturned =>
        \A i \in 1..Len(wrap.lines) :
            IF LongestWord(text) > minimum_characters
            THEN Len(wrap.lines[i]) >= LongestWord(text)
            ELSE Len(wrap.lines[i]) >= minimum_characters

(***************************************************************************)
(* C5, amended: no returned line has more characters than                  *)
(* minimum_characters, or, when the longest word is longer than that, than *)
(* the longest word (minimum_characters is the least wrap width, an upper  *)
(* limit of the lines' lengths, not a lower one).                          *)
(***************************************************************************)
C5_NoLongerLine ==
    WrapReturned =>
        \A i \in 1..Len(wrap.lines) :
            IF LongestWord(text) > minimum_characters
            THEN Len(wrap.lines[i]) <= LongestWord(text)
            ELSE Len(wrap.lines[i]) <= minimum_characters

\* Both cases in one shape: a text wrapped into a line that is exactly as
\* long as the limit and a shorter line, the limit being the longest word.
C5_Witness ==
    /\ WrapReturned
    /\ LongestWord(text) > minimum_characters
    /\ Len(wrap.lines) = 2
    /\ Len(wrap.lines[1]) = LongestWord(text)
    /\ Len(wrap.lines[2]) < LongestWord(text)

(***************************************************************************)
(* get_text_line_image: a call, and a second call with another text and    *)
(* justification but the same font, font_size and space.                   *)
(***************************************************************************)
\* The longest text rendered on a line.
MaxLineTextLen == 2
\* The largest font_size argument.
MaxFontSize == 3
\* The largest image_width argument of get_text_line_image.
MaxLineWidth == 5

\* The space arguments drawn: 1, the default 1.2, and 1.5.
Spaces == {<<1, 1>>, <<6, 5>>, <<3, 2>>}
Justifications == {"l", "c", "r"}
\* The background arguments drawn: the default (transparent) and a solid one.
Backgrounds == {"#ffffff00", "#ff0000ff"}

InitLine ==
    /\ pc = "call"
    /\ ColorIdle
    /\ BoundsIdle
    /\ WrapIdle
    /\ \E k \in 0..MaxLineTextLen : text \in [1..k -> Alphabet]
    /\ font \in Fonts
    /\ image_width \in 1..MaxLineWidth
    /\ minimum_characters = 1
    /\ font_size \in 0..MaxFontSize
    /\ image_height = 0
    /\ space \in Spaces
    /\ justified \in Justifications
    /\ vertical = "c"
    /\ text_foreground = "#000000ff"
    /\ background \in Backgrounds
    /\ rendered = [status |-> "none"]
    /\ prev_size = <<>>
    /\ PaletteIdle
    /\ FontIdle
    /\ SearchIdle

GetTextLineImage ==
    /\ pc = "call"
    /\ rendered' = get_text_line_image(text, font, font_size, image_width,
                       text_foreground, background, space, justified)
    /\ pc' = "done"
    /\ UNCHANGED <<colorVars, boundsVars, textVars, wrapVars, renderVars,
                   prev_size,
                   paletteVars, fontVars, searchVars>>

\* The caller keeps the size of the image it got and calls again with
\* another text and justification.
CallAgain ==
    /\ pc = "done"
    /\ rendered.status = "ok"
    /\ prev_size = <<>>
    /\ prev_size' = Size(rendered.image)
    /\ \E k \in 0..MaxLineTextLen : text' \in [1..k -> Alphabet]
    /\ justified' \in Justifications
    /\ rendered' = [status |-> "none"]
    /\ pc' = "call"
    /\ UNCHANGED <<colorVars, boundsVars, wrapVars, font, image_width,
                   minimum_characters, font_size, image_height, space,
                   vertical, text_foreground, background,
                   paletteVars, fontVars, searchVars>>

NextLine == GetTextLineImage \/ CallAgain

SpecLine == InitLine /\ [][NextLine]_vars

\* Some pixel of the returned image has the colour of the text.
HasInk(img) ==
    \E x \in 0..(img.width - 1), y \in 0..(img.height - 1) :
        img.px[x, y] = text_foreground

MaxBoxTextLen == 3
\* The largest image_width and image_height of a box.
MaxBoxWidth == 7
MaxBoxHeight == 5
\* The largest minimum_characters argument of text_image_fit_box.
MaxBoxMinimum == 2

\* The characters of the texts fitted in a box.
BoxAlphabet == {"a", " "}
\* The space arguments of text_image_fit_box: the default 1.2, and 1.5.
BoxSpaces == {<<6, 5>>, <<3, 2>>}
\* The <<justified, vertical>> arguments of text_image_fit_box: every value
\* of each, and a vertical value that is none of "t", "c" and "b".
Alignments == {<<"l", "t">>, <<"c", "c">>, <<"r", "b">>, <<"c", "m">>}

InitBox ==
    /\ pc = "call"
    /\ ColorIdle
    /\ BoundsIdle
    /\ WrapIdle
    /\ \E k \in 0..MaxBoxTextLen : text \in [1..k -> BoxAlphabet]
    /\ font \in Fonts
    /\ image_width \in 1..MaxBoxWidth
    /\ minimum_characters \in 1..MaxBoxMinimum
    /\ font_size = 0
    /\ image_height \in 1..MaxBoxHeight
    /\ space \in BoxSpaces
    /\ \E a \in Alignments : justified = a[1] /\ vertical = a[2]
    /\ text_foreground = "#000000ff"
    /\ background = "#ffffff00"
    /\ rendered = [status |-> "none"]
    /\ prev_size = <<>>
    /\ PaletteIdle
    /\ FontIdle
    /\ SearchIdle

TextImageFitBox ==
    /\ pc = "call"
    /\ rendered' = text_image_fit_box(text, font, image_width, image_height,
                       text_foreground, background, space, justified,
                       vertical, minimum_characters)
    /\ pc' = "done"
    /\ UNCHANGED <<colorVars, boundsVars, textVars, wrapVars, renderVars,
                   prev_size,
                   paletteVars, fontVars, searchVars>>

NextBox == TextImageFitBox

SpecBox == InitBox /\ [][NextBox]_vars

(***************************************************************************)
(* C7: for every non-empty text, font, image_width >= 1 and                *)
(* image_height >= 1, text_image_fit_box returns (it neither raises nor    *)
(* loops forever) an image of size exactly (image_width, image_height).    *)
(***************************************************************************)
C7_FitBoxReturns ==
    (pc = "done" /\ text # <<>>) =>
        /\ rendered.status = "ok"
        /\ Size(rendered.image) = <<image_width, image_height>>

(***************************************************************************)
(* C8: for every integer h, get_hue_in_range(h) is the one value in 0..359 *)
(* congruent to h modulo 360, and it is the same for h + 360*k.            *)
(***************************************************************************)
C8_HueInRange ==
    pc = "done" =>
        /\ hue_ret \in 0..(FullCircle - 1)
        /\ (hue_ret - hue) % FullCircle = 0
        /\ \A r \in 0..(FullCircle - 1) :
               (r - hue) % FullCircle = 0 => r = hue_ret
        /\ \A k \in (0 - MaxShift)..MaxShift :
               get_hue_in_range(hue + (FullCircle * k)) = hue_ret

\* A hue below the range and a hue above it by more than one turn were
\* normalised.
C8_Witness == pc = "done" /\ hue < 0 - FullCircle /\ hue_ret = 320

(***************************************************************************)
(* C9: for 1 <= offset <= 360, get_hue_offsets(h, offset) has length       *)
(* floor(360/offset), starts with get_hue_in_range(h), and each element is *)
(* the previous one plus offset modulo 360.                                *)
(***************************************************************************)
C9_HueOffsets ==
    pc = "done" =>
        /\ Len(hues) * offset <= FullCircle
        /\ (Len(hues) + 1) * offset > FullCircle
        /\ hues[1] = get_hue_in_range(hue)
        /\ hues[1] \in 0..(FullCircle - 1)
        /\ (hues[1] - hue) % FullCircle = 0
        /\ \A i \in 1..(Len(hues) - 1) :
               hues[i + 1] = (hues[i] + offset) % FullCircle

\* The wrap-around case of the tests: (128, 120) gives [128, 248, 8].
C9_Witness ==
    pc = "done" /\ hue = 128 /\ offset = 120 /\ hues = <<128, 248, 8>>

(***************************************************************************)
(* C10: for (r, g, b) in [0,255]^3, rgb_to_hex_color returns the nine      *)
(* lower-case characters #rrggbbff, and reading them back as #RRGGBBAA     *)
(* gives (r, g, b) with alpha 255.                                         *)
(***************************************************************************)
C10_HexRoundTrip ==
    pc = "done" =>
        /\ Len(hex_color) = 9
        /\ hex_color[1] = "#"
        /\ \A i \in 2..9 : HexValue(hex_color[i]) >= 0
        /\ hex_color[8] = "f" /\ hex_color[9] = "f"
        /\ getrgb(hex_color) = <<rgb[1], rgb[2], rgb[3], 255>>

\* The test's triple with three one-digit channels: (12, 13, 14).
C10_Witness ==
    /\ pc = "done"
    /\ rgb = <<12, 13, 14>>
    /\ hex_color = <<"#", "0", "c", "0", "d", "0", "e", "f", "f">>

(***************************************************************************)
(* The palettes of color.py                                                *)
(***************************************************************************)

\* The hue arguments drawn: the hues of the circle.
PaletteHues == 0..(FullCircle - 1)

InitPalette ==
    /\ pc = "call"
    /\ ColorIdle
    /\ BoundsIdle
    /\ TextIdle
    /\ WrapIdle
    /\ RenderIdle
    /\ PaletteIdle
    /\ FontIdle
    /\ SearchIdle

GetMonochromePalette ==
    /\ pc = "call"
    /\ hue' \in PaletteHues
    /\ palette' = get_monochrome_palette(hue')
    /\ called' = "get_monochrome_palette"
    /\ pc' = "done"
    /\ UNCHANGED <<offset, hue_ret, hues, rgb, hex_color, boundsVars, textVars,
                   wrapVars, renderVars, renderedVars, dark_hue, light_hue,
                   foreground_hue, background_hue, fontVars, searchVars>>

GetDualHuePalette ==
    /\ pc = "call"
    /\ dark_hue' \in PaletteHues
    /\ light_hue' \in PaletteHues
    /\ palette' = get_dual_hue_palette(dark_hue', light_hue')
    /\ called' = "get_dual_hue_palette"
    /\ pc' = "done"
    /\ UNCHANGED <<colorVars, boundsVars, textVars, wrapVars, renderVars,
                   renderedVars, foreground_hue, background_hue, fontVars,
                   searchVars>>

\* dark_hue and light_hue are hues[0] and hues[1], the arguments of the
\* call of get_dual_hue_palette at line 121.
GetRandomColorPalette ==
    /\ pc = "call"
    /\ \E divisions \in 3..4, start \in 0..359, reverse \in BOOLEAN,
          dark_primary \in BOOLEAN :
          /\ dark_hue' = SortedHues(divisions, start, reverse)[1]
          /\ light_hue' = SortedHues(divisions, start, reverse)[2]
          /\ palette' = get_random_color_palette(divisions, start, reverse,
                                                 dark_primary)
    /\ called' = "get_random_color_palette"
    /\ pc' = "done"
    /\ UNCHANGED <<colorVars, boundsVars, textVars, wrapVars, renderVars,
                   renderedVars, foreground_hue, background_hue, fontVars,
                   searchVars>>

NextPalette ==
    \/ GetMonochromePalette
    \/ GetDualHuePalette
    \/ GetRandomColorPalette

SpecPalette == InitPalette /\ [][NextPalette]_vars

\* The channels of HSV(h, s%, v%) as exact fractions: the numerators over
\* the denominator 600000, by the sector of the hue (h \div 60) and the
\* position in the sector (h % 60).
ExactHsv(h, s, v) ==
    LET in_sector == h % 60
        vv == 6000 * v
        p == (60 * v) * (100 - s)
        q == v * (6000 - (s * in_sector))
        t == v * (6000 - (s * (60 - in_sector)))
        sector == (h \div 60) % 6
    IN  IF sector = 0 THEN <<vv, t, p>>
        ELSE IF sector = 1 THEN <<q, vv, p>>
        ELSE IF sector = 2 THEN <<p, vv, t>>
        ELSE IF sector = 3 THEN <<p, q, vv>>
        ELSE IF sector = 4 THEN <<t, p, vv>>
        ELSE <<vv, p, q>>

\* n is an integer nearest to 255 * (numerator / 600000)
NearestChannel(n, numerator) ==
    /\ n \in 0..255
    /\ ((510 * numerator) - ((2 * n) * 600000)) \in (0 - 600000)..600000

\* c is the #rrggbbff encoding of HSV(h, s%, v%), every channel rounded to
\* a nearest integer
EncodesHsv(c, h, s, v) ==
    /\ getrgb(c) # <<>>
    /\ getrgb(c)[4] = 255
    /\ \A k \in 1..3 : NearestChannel(getrgb(c)[k], ExactHsv(h, s, v)[k])

\* C11: for every hue h in 0..359, get_monochrome_palette(h) maps
\* "light-saturated", "dark-saturated", "light-desaturated" and
\* "dark-desaturated" to the #rrggbbff encodings of HSV(h,80%,90%),
\* HSV(h,80%,30%), HSV(h,20%,100%) and HSV(h,50%,20%), every channel the
\* HSV-to-RGB value rounded to the nearest integer in 0..255; for hue 0 the
\* values are "#e62e2eff", "#4d0f0fff", "#ffccccff" and "#331a1aff".
C11_MonochromeRecipes ==
    (pc = "done" /\ called = "get_monochrome_palette") =>
        /\ EncodesHsv(palette["light-saturated"], hue, 80, 90)
        /\ EncodesHsv(palette["dark-saturated"], hue, 80, 30)
        /\ EncodesHsv(palette["light-desaturated"], hue, 20, 100)
        /\ EncodesHsv(palette["dark-desaturated"], hue, 50, 20)
        /\ hue = 0 =>
            /\ palette["light-saturated"] = <<"#","e","6","2","e","2","e","f","f">>
            /\ palette["dark-saturated"] = <<"#","4","d","0","f","0","f","f","f">>
            /\ palette["light-desaturated"] = <<"#","f","f","c","c","c","c","f","f">>
            /\ palette["dark-desaturated"] = <<"#","3","3","1","a","1","a","f","f">>

\* The palette of hue 10, where a channel of HSV(10, 80%, 90%) lies half way
\* between 76 and 77 and the float arithmetic gives 76 (0x4c).
C11_Witness ==
    /\ pc = "done"
    /\ called = "get_monochrome_palette"
    /\ hue = 10
    /\ palette["light-saturated"] = <<"#","e","6","4","c","2","e","f","f">>

\* Hues the other hue of a dual palette is changed to.
OtherHues == {0, 59, 60, 180, 359}

\* C12: for all hues dark_hue and light_hue, get_dual_hue_palette(dark_hue,
\* light_hue) has its two "light-*" values equal to those of
\* get_monochrome_palette(light_hue) and its two "dark-*" values equal to
\* those of get_monochrome_palette(dark_hue); another dark_hue gives the same
\* "light-*" values and another light_hue the same "dark-*" values.
C12_DualHueSources ==
    (pc = "done" /\ called = "get_dual_hue_palette") =>
        /\ \A key \in {"light-saturated", "light-desaturated"} :
            /\ palette[key] = get_monochrome_palette(light_hue)[key]
            /\ \A other \in OtherHues :
                   get_dual_hue_palette(other, light_hue)[key] = palette[key]
        /\ \A key \in {"dark-saturated", "dark-desaturated"} :
            /\ palette[key] = get_monochrome_palette(dark_hue)[key]
            /\ \A other \in OtherHues :
                   get_dual_hue_palette(dark_hue, other)[key] = palette[key]

\* The test's palette of dark_hue 120 and light_hue 30.
C12_Witness ==
    /\ pc = "done"
    /\ called = "get_dual_hue_palette"
    /\ dark_hue = 120
    /\ light_hue = 30
    /\ palette["light-saturated"] = <<"#","e","6","8","a","2","e","f","f">>
    /\ palette["dark-saturated"] = <<"#","0","f","4","d","0","f","f","f">>

\* The keys of the palette a function returns.
PaletteKeys(function) ==
    IF function = "get_random_color_palette"
    THEN {"primary-saturated", "primary-desaturated", "secondary-saturated",
          "secondary-desaturated"}
    ELSE {"light-saturated", "dark-saturated", "light-desaturated",
          "dark-desaturated"}

\* ^#[0-9a-f]{6}ff$
WellFormedColor(c) ==
    /\ Len(c) = 9
    /\ c[1] = "#"
    /\ \A i \in 2..7 : \E d \in 1..16 : HexChar[d] = c[i]
    /\ c[8] = "f"
    /\ c[9] = "f"

\* C13: every palette returned by get_monochrome_palette and
\* get_dual_hue_palette (hues in 0..359) and by every outcome of the random
\* choices of get_random_color_palette has all four of its fixed keys, and
\* every value matches ^#[0-9a-f]{6}ff$.
C13_PaletteWellFormed ==
    pc = "done" =>
        /\ DOMAIN palette = PaletteKeys(called)
        /\ \A key \in DOMAIN palette : WellFormedColor(palette[key])

\* A random palette whose primary colours are the dark ones of hue 0 and
\* whose secondary colours are the light ones of hue 120.
C13_Witness ==
    /\ pc = "done"
    /\ called = "get_random_color_palette"
    /\ palette["primary-saturated"] = <<"#","4","d","0","f","0","f","f","f">>
    /\ palette["secondary-saturated"] = <<"#","2","e","e","6","2","e","f","f">>

(***************************************************************************)
(* text_to_image.py: get_font and get_basic_font.  A path, a font name and *)
(* a style are strings: sequences of pieces, where "/", "." and the        *)
(* qualifiers "-bold" and "-italic" are pieces of their own and a run of   *)
(* other characters is one piece.                                          *)
(***************************************************************************)

\* The font files of the file system that ImageFont.truetype can load, each
\* with the font it holds.
FontFaces ==
    (<<"/", "e", "/", "Georgia", ".", "otf">> :> "Georgia in /e")
    @@ (<<"/", "f", "/", "Georgia", ".", "ttf">> :> "Georgia in /f")
    @@ (<<"/", "d", "/", "Georgia Bold", ".", "ttf">> :> "Georgia Bold in /d")
    @@ (<<"/", "d", "/", "DejaVuSerif-Bold", ".", "ttf">> :> "DejaVuSerif-Bold in /d")
    @@ (<<"/", "d", "/", "DejaVuSans-Oblique", ".", "ttf">> :> "DejaVuSans-Oblique in /d")
    @@ (<<"/", "d", "/", "Mr", ".", "Font", ".", "ttf">> :> "Mr.Font in /d")

\* Files that are not fonts: ImageFont.truetype raises OSError for them.
NotFontFiles == { <<"/", "d", "/", "Georgia", ".", "ttf">> }

\* The paths a font list is made of.
FontFiles == DOMAIN FontFaces \cup NotFontFiles

\* The exception ImageFont.truetype raises for a file that is not a font.
OSError == "OSError"

\* text_to_image.py:79   ImageFont.truetype(font): the font loaded from the
\* file, or OSError raised.
truetype(path) ==
    IF path \in DOMAIN FontFaces THEN FontFaces[path] ELSE OSError

RECURSIVE LastSlashFrom(_, _)
\* os.path.basename: what follows the last "/"
LastSlashFrom(path, i) ==
    IF i = 0 THEN 0
    ELSE IF path[i] = "/" THEN i
    ELSE LastSlashFrom(path, i - 1)

basename(path) == SubSeq(path, LastSlashFrom(path, Len(path)) + 1, Len(path))

RECURSIVE FirstDotFrom(_, _)
\* The leftmost match of \..+$ : the first "." with at least one character
\* after it; 0 if there is none.
FirstDotFrom(name, i) ==
    IF i >= Len(name) THEN 0
    ELSE IF name[i] = "." THEN i
    ELSE FirstDotFrom(name, i + 1)

\* text_to_image.py:74   re.sub(r"\..+$", "", basename(font))
system_font_name(path) ==
    The({ IF dot = 0 THEN name ELSE SubSeq(name, 1, dot - 1)
          : name \in {basename(path)},
            dot \in {FirstDotFrom(basename(path), 1)} })

RECURSIVE get_font_from(_, _, _)
\* text_to_image.py:73-82   the loop over fonts, from the i-th one
get_font_from(name, font_list, i) ==
    IF i > Len(font_list) THEN None
    ELSE IF system_font_name(font_list[i]) = name
            /\ truetype(font_list[i]) # OSError
         THEN truetype(font_list[i])
         ELSE get_font_from(name, font_list, i + 1)

\* text_to_image.py:58-84
get_font(name, font_list) == get_font_from(name, font_list, 1)

\* text_to_image.py:104-118   font_types; a key is the style followed by its
\* qualifiers.
font_types ==
    (<<"serif">> :> <<"Garamond", "Georgia", "Baskerville", "Times New Roman",
                      "FreeSerif", "DejaVuSerif">>)
    @@ (<<"serif", "-bold">> :>
            <<"Georgia Bold", "Times New Roman Bold", "FreeSerifBold",
              "DejaVuSerif-Bold">>)
    @@ (<<"serif", "-italic">> :>
            <<"Georgia Italic", "Times New Roman Italic", "FreeSerifItalic",
              "DejaVuSerif-Italic">>)
    @@ (<<"serif", "-bold", "-italic">> :>
            <<"Georgia Bold Italic", "Times New Roman Bold Italic",
              "FreeSerifBoldItalic", "DejaVuSerif-BoldItalic">>)
    @@ (<<"sans-serif">> :>
            <<"Helvetica", "Arial", "Verdana", "Tahoma", "FreeSans",
              "DejaVuSans">>)
    @@ (<<"sans-serif", "-bold">> :>
            <<"Arial Bold", "Verdana Bold", "Tahoma Bold", "FreeSansBold",
              "DejaVuSans-Bold">>)
    @@ (<<"sans-serif", "-italic">> :>
            <<"Arial Italic", "Verdana Italic", "FreeSansOblique",
              "DejaVuSans-Oblique">>)
    @@ (<<"sans-serif", "-bold", "-italic">> :>
            <<"Arial Bold Italic", "Verdana Bold Italic",
              "FreeSansBoldOblique", "DejaVuSans-BoldOblique">>)
    @@ (<<"monospace">> :>
            <<"Courier", "Courier New", "Lucida", "Monaco", "FreeMono",
              "DejaVu Sans Mono">>)
    @@ (<<"monospace", "-bold">> :>
            <<"Courier New Bold", "FreeMonoBold", "DejaVuSansMono-Bold">>)
    @@ (<<"monospace", "-italic">> :>
            <<"Courier New Italic", "FreeMonoOblique",
              "DejaVuSansMono-Oblique">>)
    @@ (<<"monospace", "-bold", "-italic">> :>
            <<"Courier New Bold Italic", "FreeMonoBoldOblique",
              "DejaVuSansMono-BoldOblique">>)

\* text_to_image.py:120-124   font_key
FontKey(style, is_bold, is_italic) ==
    style \o (IF is_bold THEN <<"-bold">> ELSE <<>>)
          \o (IF is_italic THEN <<"-italic">> ELSE <<>>)

\* ImageFont.load_default(): the built-in font, getname() ("Aileron",
\* "Regular")
load_default == "Aileron Regular"

RECURSIVE FirstCandidateFrom(_, _, _)
\* text_to_image.py:127-130   the loop over font_types[font_key], from the
\* i-th candidate; None when the loop ends without returning
FirstCandidateFrom(candidates, font_list, i) ==
    IF i > Len(candidates) THEN None
    ELSE IF get_font(<<candidates[i]>>, font_list) # None
         THEN get_font(<<candidates[i]>>, font_list)
         ELSE FirstCandidateFrom(candidates, font_list, i + 1)

\* text_to_image.py:126-131   try: ... except KeyError: pass
TryFontKey(font_key, font_list) ==
    IF font_key \in DOMAIN font_types
    THEN FirstCandidateFrom(font_types[font_key], font_list, 1)
    ELSE None

\* get_basic_font without the second attempt of lines 133-134
get_basic_font_NoPlainStyle(style, font_list, is_bold, is_italic) ==
    IF TryFontKey(FontKey(style, is_bold, is_italic), font_list) # None
    THEN TryFontKey(FontKey(style, is_bold, is_italic), font_list)
    ELSE load_default

RECURSIVE get_basic_font_ViaBold(_, _, _, _)
\* get_basic_font with a second attempt that drops one qualifier at a time:
\* bold-italic, then bold, then the plain style
get_basic_font_ViaBold(style, font_list, is_bold, is_italic) ==
    IF TryFontKey(FontKey(style, is_bold, is_italic), font_list) # None
    THEN TryFontKey(FontKey(style, is_bold, is_italic), font_list)
    ELSE IF is_bold /\ is_italic
         THEN get_basic_font_ViaBold(style, font_list, TRUE, FALSE)
         ELSE IF is_bold \/ is_italic
              THEN get_basic_font_ViaBold(style, font_list, FALSE, FALSE)
              ELSE load_default

RECURSIVE recursion_levels(_, _, _, _)
\* text_to_image.py:126-136   the number of calls of get_basic_font that a
\* call makes below itself (line 134)
recursion_levels(style, font_list, is_bold, is_italic) ==
    IF TryFontKey(FontKey(style, is_bold, is_italic), font_list) # None
    THEN 0
    ELSE IF is_bold \/ is_italic
         THEN 1 + recursion_levels(style, font_list, FALSE, FALSE)
         ELSE 0

RECURSIVE get_basic_font(_, _, _, _)
\* text_to_image.py:86-136
get_basic_font(style, font_list, is_bold, is_italic) ==
    IF TryFontKey(FontKey(style, is_bold, is_italic), font_list) # None
    THEN TryFontKey(FontKey(style, is_bold, is_italic), font_list)
    ELSE IF is_bold \/ is_italic
         THEN get_basic_font(style, font_list, FALSE, FALSE)
         ELSE load_default

(***************************************************************************)
(* Calls of get_font and get_basic_font.                                   *)
(***************************************************************************)

\* Longest font list drawn.
MaxFonts == 3

FontLists == UNION { [1..n -> FontFiles] : n \in 0..MaxFonts }

FontNames ==
    { <<"Garamond">>, <<"Georgia">>, <<"Georgia Bold">>, <<"DejaVuSans-Oblique">>,
      <<"Mr">>, <<"Mr", ".", "Font">>, <<"Georgia", ".", "otf">>, <<"Blah">> }

FontStyles ==
    { <<"serif">>, <<"sans-serif">>, <<"monospace">>, <<"blah">>,
      <<"serif", "-bold">> }

InitFont ==
    /\ pc = "call"
    /\ ColorIdle /\ BoundsIdle /\ TextIdle /\ WrapIdle /\ RenderIdle
    /\ PaletteIdle /\ FontIdle /\ SearchIdle

GetFont ==
    /\ pc = "call"
    /\ font_name' \in FontNames
    /\ fonts' \in FontLists
    /\ image_font' = get_font(font_name', fonts')
    /\ called' = "get_font"
    /\ pc' = "done"
    /\ UNCHANGED <<colorVars, boundsVars, textVars, wrapVars, renderVars,
                   renderedVars, palette, dark_hue, light_hue, foreground_hue,
                   background_hue, font_style, bold, italic, searchVars>>

GetBasicFont ==
    /\ pc = "call"
    /\ font_style' \in FontStyles
    /\ fonts' \in FontLists
    /\ bold' \in BOOLEAN
    /\ italic' \in BOOLEAN
    /\ image_font' = get_basic_font(font_style', fonts', bold', italic')
    /\ called' = "get_basic_font"
    /\ pc' = "done"
    /\ UNCHANGED <<colorVars, boundsVars, textVars, wrapVars, renderVars,
                   renderedVars, palette, dark_hue, light_hue, foreground_hue,
                   background_hue, font_name, searchVars>>

NextFont == GetFont \/ GetBasicFont

SpecFont == InitFont /\ [][NextFont]_vars

RECURSIVE LastDotFrom(_, _)
\* The last "." of a file name that has a character other than "." before
\* it; 0 if there is none.
LastDotFrom(name, i) ==
    IF i <= 1 THEN 0
    ELSE IF name[i] = "." /\ \E k \in 1..(i - 1) : name[k] # "." THEN i
    ELSE LastDotFrom(name, i - 1)

\* The stem of a path: its file name with the extension (the last "." and
\* what follows it) stripped.
Stem(path) ==
    The({ IF LastDotFrom(name, Len(name)) = 0 THEN name
          ELSE SubSeq(name, 1, LastDotFrom(name, Len(name)) - 1)
          : name \in {basename(path)} })

\* The files of a list whose stem is the name and that load as a font.
StemMatches(name, font_list) ==
    { i \in 1..Len(font_list) :
        Stem(font_list[i]) = name /\ font_list[i] \in DOMAIN FontFaces }

\* C14: get_font returns the font of the first file of the list whose stem
\* (file name with the extension stripped) equals font_name and that loads
\* as a font, skipping the files that match and do not load, and None if
\* there is no such file.
C14_FirstLoadableStemMatch ==
    (pc = "done" /\ called = "get_font") =>
        IF StemMatches(font_name, fonts) = {}
        THEN image_font = None
        ELSE \E i \in StemMatches(font_name, fonts) :
                /\ \A k \in StemMatches(font_name, fonts) : i <= k
                /\ image_font = FontFaces[fonts[i]]

\* The candidate names of a key, none for a key that is not in the table.
Candidates(font_key) ==
    IF font_key \in DOMAIN font_types THEN font_types[font_key] ELSE <<>>

\* The names get_basic_font is to try, in order.
Attempts(style, is_bold, is_italic) ==
    Candidates(FontKey(style, is_bold, is_italic))
    \o (IF is_bold \/ is_italic THEN Candidates(style) ELSE <<>>)

\* The positions of the names of a list that get_font resolves.
Resolving(names, font_list) ==
    { k \in 1..Len(names) : get_font(<<names[k]>>, font_list) # None }

\* C15: get_basic_font never returns None; it returns the font of the first
\* name that get_font resolves among the candidates of the key
\* style[-bold][-italic] followed, if bold or italic was asked for, by the
\* candidates of the plain style, and the default font if none resolves; an
\* unrecognised style or an empty font list gives the default font.
C15_BasicFontOrder ==
    (pc = "done" /\ called = "get_basic_font") =>
        /\ image_font # None
        /\ LET names == Attempts(font_style, bold, italic)
               resolving == Resolving(names, fonts)
           IN  IF resolving = {}
               THEN image_font = load_default
               ELSE \E k \in resolving :
                       /\ \A j \in resolving : k <= j
                       /\ image_font = get_font(<<names[k]>>, fonts)
        /\ (fonts = <<>> \/ font_style \notin DOMAIN font_types)
               => image_font = load_default

\* The bold serif candidates are tried in table order: the font list holds
\* DejaVuSerif-Bold before Georgia Bold and Georgia Bold is returned.
C15_Witness ==
    /\ pc = "done"
    /\ called = "get_basic_font"
    /\ font_style = <<"serif">>
    /\ bold /\ ~italic
    /\ fonts = << <<"/", "d", "/", "DejaVuSerif-Bold", ".", "ttf">>,
                  <<"/", "d", "/", "Georgia Bold", ".", "ttf">> >>
    /\ image_font = "Georgia Bold in /d"

(***************************************************************************)
(* get_text_multiline_image: a call.                                       *)
(***************************************************************************)
\* The largest number of lines drawn.
MaxLines == 3

\* The texts of the lines drawn.
LineTexts == {<<>>, <<"a">>, <<"a", "-">>}

InitMulti ==
    /\ pc = "call"
    /\ ColorIdle
    /\ BoundsIdle
    /\ WrapIdle
    /\ text = <<>>
    /\ \E n \in 0..MaxLines : text_lines \in [1..n -> LineTexts]
    /\ search = [font_size |-> 0, line_width |-> 0, largest_line |-> <<>>]
    /\ font \in Fonts
    /\ image_width \in {2, MaxLineWidth}
    /\ minimum_characters = 1
    /\ font_size \in {0, MaxFontSize}
    /\ image_height = 0
    /\ space \in Spaces
    /\ justified \in Justifications
    /\ vertical = "c"
    /\ text_foreground = "#000000ff"
    /\ background \in Backgrounds
    /\ rendered = [status |-> "none"]
    /\ prev_size = <<>>
    /\ PaletteIdle
    /\ FontIdle

GetTextMultilineImage ==
    /\ pc = "call"
    /\ rendered' = get_text_multiline_image(text_lines, font, font_size,
                       image_width, text_foreground, background, space,
                       justified)
    /\ pc' = "done"
    /\ UNCHANGED <<colorVars, boundsVars, textVars, wrapVars, renderVars,
                   prev_size, paletteVars, fontVars, searchVars>>

NextMulti == GetTextMultilineImage

SpecMulti == InitMulti /\ [][NextMulti]_vars

\* The height of a line's strip: floor(referenceHeight * space).
StripHeight ==
    FloorTimes((RefBottom(font, font_size) + 1) - RefTop(font, font_size), space)

\* The rows [(i-1) * h, i * h) of the returned image, as an image.
Strip(i, h) == Crop(rendered.image, 0, (i - 1) * h, rendered.image.width, i * h)

\* C16: the image get_text_multiline_image returns is image_width wide and
\* h * len(lines) high, h being the height of a single line's image for the
\* font, font_size and space; its rows [i*h, (i+1)*h) are line i (counted
\* from 0) rendered alone, with the justification, on the background: the
\* strips are in the order of the lines, with no overlap and no gap.
C16_StackedStrips ==
    (pc = "done" /\ rendered.status = "ok") =>
        /\ rendered.image.width = image_width
        /\ rendered.image.height = StripHeight * Len(text_lines)
        /\ \A i \in 1..Len(text_lines) :
              Strip(i, StripHeight) =
                  get_text_line_image(text_lines[i], font, font_size,
                      image_width, text_foreground, background, space,
                      justified).image

\* Three lines, the second without ink, returned with ink in the first and
\* the third strip and none in the second.
C16_Witness ==
    /\ pc = "done"
    /\ rendered.status = "ok"
    /\ text_lines = << <<"a">>, <<>>, <<"a", "-">> >>
    /\ space = <<6, 5>>
    /\ justified = "l"
    /\ HasInk(Strip(1, StripHeight))
    /\ ~HasInk(Strip(2, StripHeight))
    /\ HasInk(Strip(3, StripHeight))

(***************************************************************************)
(* get_color_palette: a call, with every outcome of its four               *)
(* random.randint calls.                                                   *)
(***************************************************************************)
\* text_to_image.py:468   the largest value of random.randint(0, 24)
LastHueStep == 24

InitColorPalette == InitPalette

GetColorPalette ==
    /\ pc = "call"
    /\ \E r \in {get_color_palette(white_text, step, triadic, negative) :
                    white_text \in BOOLEAN, step \in 0..LastHueStep,
                    triadic \in BOOLEAN, negative \in BOOLEAN} :
           /\ foreground_hue' = r.foreground_hue
           /\ background_hue' = r.background_hue
           /\ palette' = r.colors
    /\ called' = "get_color_palette"
    /\ pc' = "done"
    /\ UNCHANGED <<colorVars, boundsVars, textVars, wrapVars, renderVars,
                   renderedVars, dark_hue, light_hue, fontVars, searchVars>>

NextColorPalette == GetColorPalette

SpecColorPalette == InitColorPalette /\ [][NextColorPalette]_vars

\* The differences modulo 360 of a shift by +30, -30, +120 and -120 degrees.
HueOffsets == {30, 330, 120, 240}

\* C17: whatever the random choices of get_color_palette, the background
\* hue it converts lies in 0..359 and differs from the foreground hue by
\* +30, -30, +120 or -120 degrees modulo 360; and each of the four
\* differences is the outcome of some random choices.
C17_BackgroundHueOffset ==
    /\ (pc = "done" /\ called = "get_color_palette") =>
          /\ background_hue \in 0..(FullCircle - 1)
          /\ ((background_hue - foreground_hue) % FullCircle) \in HueOffsets
          /\ \E value \in {30, 90} :
                palette[2] = HexColorOf(getrgb_hsv(background_hue, 100, value))
    /\ pc = "call" =>
          \A d \in HueOffsets :
              \E step \in 0..LastHueStep, triadic \in BOOLEAN, negative \in BOOLEAN :
                  ((BackgroundHue(step * 15, HueShift(triadic, negative))
                    - (step * 15)) % FullCircle) = d

\* The foreground hue is 360 (step 24) and the triadic shift up gives 480,
\* brought back to 120.
C17_Witness ==
    /\ pc = "done"
    /\ called = "get_color_palette"
    /\ foreground_hue = 360
    /\ background_hue = 120
    /\ palette[3] = <<"#", "f", "f", "f", "f", "f", "f", "f", "f">>

(***************************************************************************)
(* get_word_wrap step by step: the lines and the first font size, then the *)
(* while loop of lines 327-331 a step at a time.  pc is "search" at the     *)
(* test of the loop (line 327) and "grow" in its body (lines 328-331).     *)
(***************************************************************************)
\* Longest text and widest image drawn for the search.
MaxSearchTextLen == 2
MaxSearchWidth == 4

\* The font sizes from SizeCap on are one value of the model, SizeCap.  A
\* line with a glyph that has an advance measures more than MaxSearchWidth
\* well before this size, so only a line whose width is the same at every
\* size gets there, and its iterations are the same at every size.
SizeCap == Em * (MaxSearchWidth + 2)

InitSearch ==
    /\ pc = "call"
    /\ ColorIdle
    /\ BoundsIdle
    /\ \E k \in 0..MaxSearchTextLen : text \in [1..k -> Alphabet]
    /\ font \in Fonts
    /\ image_width \in 1..MaxSearchWidth
    /\ minimum_characters \in 1..2
    /\ WrapIdle
    /\ RenderIdle
    /\ PaletteIdle
    /\ FontIdle
    /\ SearchIdle

\* text_to_image.py:306-325   up to the while loop; font_variant raises for
\* a first size below 1 when there is a line to measure.
StartSearch ==
    /\ pc = "call"
    /\ text_lines' = WrapLines(text, minimum_characters)
    /\ IF text_lines' # <<>>
          /\ ~CanSetSize(ConservativeSize(image_width,
                             WrapCharacters(text, minimum_characters)))
       THEN /\ wrap' = [status |-> "raise", lines |-> text_lines',
                        font_size |-> ConservativeSize(image_width,
                             WrapCharacters(text, minimum_characters))]
            /\ search' = search
            /\ pc' = "done"
       ELSE /\ \E largest \in {LargestLine(font,
                                 ConservativeSize(image_width,
                                     WrapCharacters(text, minimum_characters)),
                                 text_lines')} :
                   search' = [font_size |-> ConservativeSize(image_width,
                                     WrapCharacters(text, minimum_characters)),
                              line_width |-> largest.line_width,
                              largest_line |-> largest.largest_line]
            /\ wrap' = wrap
            /\ pc' = "search"
    /\ UNCHANGED <<colorVars, boundsVars, textVars, renderVars, renderedVars,
                   paletteVars, fontVars>>

\* text_to_image.py:327   the loop condition is true: into the body
TestWidth ==
    /\ pc = "search"
    /\ search.line_width < image_width
    /\ pc' = "grow"
    /\ UNCHANGED <<colorVars, boundsVars, textVars, wrapVars, renderVars,
                   renderedVars, paletteVars, fontVars, searchVars>>

\* text_to_image.py:328-331   the body of the loop: the next size, and the
\* width of largest_line at it
GrowStep ==
    /\ pc = "grow"
    /\ \E next \in {IF search.font_size < SizeCap THEN search.font_size + 1
                     ELSE SizeCap} :
           search' = [search EXCEPT
                         !.font_size = next,
                         !.line_width = LineWidth(font, next,
                                                  search.largest_line)]
    /\ pc' = "search"
    /\ UNCHANGED <<colorVars, boundsVars, textVars, wrapVars, renderVars,
                   renderedVars, paletteVars, fontVars, text_lines>>

\* text_to_image.py:327, 332-334   the loop condition is false: return
EndSearch ==
    /\ pc = "search"
    /\ ~(search.line_width < image_width)
    /\ wrap' = [status |-> "ok", lines |-> text_lines,
                font_size |-> search.font_size - 1]
    /\ pc' = "done"
    /\ UNCHANGED <<colorVars, boundsVars, textVars, renderVars, renderedVars,
                   paletteVars, fontVars, searchVars>>

NextSearch == StartSearch \/ TestWidth \/ GrowStep \/ EndSearch

\* The interpreter keeps running the function it is in.
SpecSearch == InitSearch /\ [][NextSearch]_vars /\ WF_vars(NextSearch)

\* Only a line whose width is the same at every size is searched up to
\* SizeCap: every search that can end ends below it.
StopsAtCapOnlyIfNeverGrows ==
    (pc \in {"search", "grow"} /\ search.font_size = SizeCap
        /\ search.line_width < image_width)
    => WidthNeverGrows(font, search.largest_line)

\* The step by step search returns what get_word_wrap returns.
SearchAgrees ==
    pc = "done" =>
        wrap = get_word_wrap(text, font, image_width, minimum_characters)

\* C18: the while loop of get_word_wrap that raises the font size ends,
\* whatever the text (empty and whitespace-only included), the font and the
\* positive image_width.
C18_SearchTerminates == (pc = "search") ~> (pc = "done")

(***************************************************************************)
(* text_image_fit_box: the combination of wrap width and font size.        *)
(***************************************************************************)

\* lineHeight + (lineCount - 1) * lineHeight * space <= image_height, for
\* lineHeight the height (bottom + 1 - top) of the box of the reference
\* glyphs at a size; both sides are multiplied by the denominator of space.
FitsHeight(f, size, count, sp, height) ==
    LET lineHeight == (RefBottom(f, size) + 1) - RefTop(f, size)
    IN  (lineHeight * sp[2]) + (((count - 1) * lineHeight) * sp[1])
            <= height * sp[2]

\* The sizes text_image_fit_box tries for what get_word_wrap returns: from
\* its size down to floor(0.9 * size) - 1, and every size below it as well
\* when there is one line.
TriedSizes(wrapped) ==
    IF Len(wrapped.lines) = 1 THEN MinFontSize..wrapped.font_size
    ELSE (((9 * wrapped.font_size) \div 10) - 1)..wrapped.font_size

\* C19: the lines and font size text_image_fit_box renders fit the height,
\* lineHeight + (lineCount - 1) * lineHeight * space <= image_height, and
\* they are the first that do in the order of the search: no size tried for
\* a lower character count (from minimum_characters on) fits, the lines are
\* those of get_word_wrap for the character count, and the size is the
\* highest size not above the size of get_word_wrap that fits.
C19_FirstFittingCombination ==
    (pc = "done" /\ rendered.status = "ok") =>
        /\ FitsHeight(font, rendered.font_size, Len(rendered.lines), space,
                      image_height)
        /\ rendered.characters >= minimum_characters
        /\ \E wrapped \in {get_word_wrap(text, font, image_width,
                                         rendered.characters)} :
              /\ wrapped.status = "ok"
              /\ rendered.lines = wrapped.lines
              /\ rendered.font_size \in TriedSizes(wrapped)
              /\ \A size \in (rendered.font_size + 1)..wrapped.font_size :
                    ~FitsHeight(font, size, Len(wrapped.lines), space,
                                image_height)
        /\ \A characters \in minimum_characters..(rendered.characters - 1) :
              \E wrapped \in {get_word_wrap(text, font, image_width,
                                            characters)} :
                 /\ wrapped.status = "ok"
                 /\ \A size \in TriedSizes(wrapped) :
                       ~FitsHeight(font, size, Len(wrapped.lines), space,
                                   image_height)

\* A box for which the first character count was given up and the size of
\* get_word_wrap for the second one was lowered.
C19_Witness ==
    /\ pc = "done"
    /\ rendered.status = "ok"
    /\ rendered.characters > minimum_characters
    /\ rendered.font_size <
           get_word_wrap(text, font, image_width, rendered.characters).font_size
    /\ Len(get_word_wrap(text, font, image_width, minimum_characters).lines) > 1

(***************************************************************************)
(* text_image_fit_box: the vertical placement.                             *)
(***************************************************************************)

\* The text block of a returned image: its lines rendered at its font size
\* on a transparent image, cropped to the rows from the topmost to the
\* bottommost row with ink.
TextBlock ==
    The({ The({ Crop(lined, 0, b[2], lined.width, b[4]) :
                b \in {get_bounds(lined, Transparent, FALSE)} }) :
          lined \in {get_text_multiline_image(rendered.lines, font,
                         rendered.font_size, image_width, text_foreground,
                         Transparent, space, justified).image} })

\* The row of the canvas the block is placed at.
PlacementY(vert, height, croppedHeight) ==
    CASE vert = "t" -> 0
      [] vert = "b" -> height - croppedHeight
      [] OTHER -> (height - croppedHeight) \div 2

\* C20: the image text_image_fit_box returns is the canvas image_width by
\* image_height of the background with the cropped text block on it at
\* y = 0 for vertical "t", image_height - croppedHeight for "b" and
\* floor((image_height - croppedHeight) / 2) for "c" and for any other
\* value: every pixel of the block with ink is the pixel of the canvas
\* y rows lower, with "t" the top row of the block is row 0 of the canvas
\* and with "b" the bottom edge of the block is the bottom edge of the
\* canvas.
C20_VerticalPlacement ==
    (pc = "done" /\ rendered.status = "ok") =>
        \E block \in {TextBlock} :
          \E y_position \in {PlacementY(vertical, image_height, block.height)} :
            /\ rendered.image =
                   AlphaComposite(
                       NewImage(image_width, image_height, background), block,
                       <<0, y_position>>)
            /\ \A x \in 0..(image_width - 1), y \in 0..(block.height - 1) :
                   (~IsTransparent(block.px[x, y])
                    /\ (y + y_position) \in 0..(image_height - 1)) =>
                       rendered.image.px[x, y + y_position] = block.px[x, y]
            /\ vertical = "t" => y_position = 0
            /\ vertical = "b" => y_position + block.height = image_height
            /\ vertical \notin {"t", "b"} =>
                   /\ 2 * y_position <= image_height - block.height
                   /\ 2 * y_position + 1 >= image_height - block.height

\* A block placed for a vertical value that is none of "t", "c" and "b",
\* with an odd number of rows left over: the division is rounded down.
C20_Witness ==
    /\ pc = "done"
    /\ rendered.status = "ok"
    /\ vertical = "m"
    /\ (image_height - TextBlock.height) % 2 = 1
    /\ HasInk(rendered.image)

(***************************************************************************)
(* get_basic_font: the second attempt, with the plain style.               *)
(***************************************************************************)
\* The fonts of the candidates of a key that get_font resolves.
ResolvedFonts(font_key, font_list) ==
    { get_font(<<Candidates(font_key)[k]>>, font_list) :
        k \in Resolving(Candidates(font_key), font_list) }

\* C21: when bold or italic is asked for and no candidate of the key
\* style[-bold][-italic] resolves, get_basic_font calls itself once, for the
\* plain style, and no further: it returns the first plain-style candidate
\* that resolves, and the default font only if none does; a bold-italic
\* request is never answered from the bold-only or the italic-only
\* candidates of the style.  A call whose key resolves, or without bold and
\* italic, does not call itself.
C21_PlainStyleFallback ==
    (pc = "done" /\ called = "get_basic_font") =>
        LET levels == recursion_levels(font_style, fonts, bold, italic)
            unresolved ==
                ResolvedFonts(FontKey(font_style, bold, italic), fonts) = {}
            plain == Resolving(Candidates(font_style), fonts)
        IN  /\ levels = (IF (bold \/ italic) /\ unresolved THEN 1 ELSE 0)
            /\ ((bold \/ italic) /\ unresolved) =>
                  /\ image_font = get_basic_font(font_style, fonts, FALSE, FALSE)
                  /\ IF plain = {}
                     THEN image_font = load_default
                     ELSE /\ image_font # load_default
                          /\ \E k \in plain :
                                /\ \A j \in plain : k <= j
                                /\ image_font =
                                     get_font(<<Candidates(font_style)[k]>>,
                                              fonts)
            /\ (bold /\ italic /\ unresolved) =>
                  image_font \notin
                      (ResolvedFonts(FontKey(font_style, TRUE, FALSE), fonts)
                       \cup ResolvedFonts(FontKey(font_style, FALSE, TRUE),
                                          fonts))

\* A bold italic serif font is asked for with a bold serif font and a plain
\* serif font in the list: the plain one is returned.
C21_Witness ==
    /\ pc = "done"
    /\ called = "get_basic_font"
    /\ font_style = <<"serif">>
    /\ bold /\ italic
    /\ fonts = << <<"/", "d", "/", "Georgia Bold", ".", "ttf">>,
                  <<"/", "e", "/", "Georgia", ".", "otf">> >>
    /\ recursion_levels(font_style, fonts, bold, italic) = 1
    /\ image_font = "Georgia in /e"

(***************************************************************************)
(* get_text_line_image: where the ink of the line is.                      *)
(***************************************************************************)
\* text_to_image.py:219-224   the image the text is drawn on
ScratchImage ==
    DrawText(NewImage(image_width * 2, font_size * 4, Transparent), <<1, 1>>,
             text, text_foreground, font, font_size)

\* text_to_image.py:229-230, 236   text_width, the width of the cropped
\* image: (right + 1) - left of the bounds of the text
TextWidth ==
    The({(b[3] + 1) - b[1] : b \in {get_bounds(ScratchImage, Transparent, FALSE)}})

\* The columns of an image with a pixel of the colour of the text.
InkColumns(img) ==
    { x \in 0..(img.width - 1) :
        \E y \in 0..(img.height - 1) : img.px[x, y] = text_foreground }

\* The number of columns from the first to the last column with ink.
InkExtent(img) == (SetMax(InkColumns(img)) - SetMin(InkColumns(img))) + 1

\* The empty columns left and right of the ink of an image.
LeftMargin(img) == SetMin(InkColumns(img))
RightMargin(img) == (img.width - 1) - SetMax(InkColumns(img))

\* A line image was returned with ink, for a text whose ink is narrower
\* than image_width - 2.
NarrowInkReturned ==
    /\ pc = "done"
    /\ rendered.status = "ok"
    /\ InkColumns(ScratchImage) # {}
    /\ InkExtent(ScratchImage) < image_width - 2
    /\ HasInk(rendered.image)

\* C22: for a text whose ink is narrower than image_width - 2 the text is
\* cropped to the columns of its ink and pasted one pixel from the edge:
\* justified "l" puts the first ink column at column 1, "r" the last ink
\* column at column image_width - 2, and every other value centres the ink
\* with a left and a right margin that differ by at most 1.
C22_InkInset ==
    NarrowInkReturned =>
        /\ TextWidth = InkExtent(ScratchImage)
        /\ (justified = "l") => LeftMargin(rendered.image) = 1
        /\ (justified = "r")
              => SetMax(InkColumns(rendered.image)) = image_width - 2
        /\ (justified \notin {"l", "r"})
              => (LeftMargin(rendered.image) - RightMargin(rendered.image))
                     \in -1..1

\* What the code does: the cropped image is one column wider than the ink
\* (line 230 adds 1 to a right bound that is already one past the ink), so
\* the ink is whole, starts at column 1 for "l", ends at column
\* image_width - 3 for "r", and has a right margin 1 or 2 larger than the
\* left one for every other value.
LineInkPlacement ==
    NarrowInkReturned =>
        /\ TextWidth = InkExtent(ScratchImage) + 1
        /\ InkExtent(rendered.image) = InkExtent(ScratchImage)
        /\ (justified = "l") => LeftMargin(rendered.image) = 1
        /\ (justified = "r")
              => SetMax(InkColumns(rendered.image)) = image_width - 3
        /\ (justified \notin {"l", "r"})
              => (RightMargin(rendered.image) - LeftMargin(rendered.image))
                     \in 1..2

\* A right justified line was returned with two empty columns right of its
\* ink.
RightInsetTwo ==
    NarrowInkReturned /\ justified = "r" /\ RightMargin(rendered.image) = 2

\* A centred line was returned with a right margin 2 larger than the left.
CentreOffByTwo ==
    /\ NarrowInkReturned
    /\ justified = "c"
    /\ RightMargin(rendered.image) = LeftMargin(rendered.image) + 2

(***************************************************************************)
(* get_word_wrap: the returned lines and the whitespace of the text.       *)
(***************************************************************************)
RECURSIVE JoinLines(_)
\* " ".join(lines)
JoinLines(lines) ==
    IF lines = <<>> THEN <<>>
    ELSE IF Len(lines) = 1 THEN Head(lines)
    ELSE Head(lines) \o <<" ">> \o JoinLines(Tail(lines))

\* A string has two whitespace characters in a row.
HasDoubleSpace(t) ==
    \E i \in 1..(Len(t) - 1) : IsSpace(t[i]) /\ IsSpace(t[i + 1])

\* C23: the lines get_word_wrap returns are a wrapping of the text with its
\* whitespace normalised: joined with single spaces they are the text with
\* every run of whitespace collapsed to one space and both ends trimmed, and
\* no line has two spaces in a row or whitespace at either end.
C23_LinesOfNormalizedText ==
    WrapReturned =>
        /\ JoinLines(wrap.lines) = strip(CollapseWhitespace(text))
        /\ \A i \in 1..Len(wrap.lines) :
              /\ ~HasDoubleSpace(wrap.lines[i])
              /\ strip(wrap.lines[i]) = wrap.lines[i]

\* What the code does: no line has whitespace at either end; and for a text
\* that, trimmed, has no two whitespace characters in a row and no hyphen,
\* the lines joined with single spaces are the trimmed text.
LinesOfSingleSpacedText ==
    WrapReturned =>
        /\ \A i \in 1..Len(wrap.lines) :
              strip(wrap.lines[i]) = wrap.lines[i] /\ wrap.lines[i] # <<>>
        /\ (~HasDoubleSpace(strip(text)) /\ \A i \in 1..Len(text) : text[i] # "-")
              => JoinLines(wrap.lines) = strip(CollapseWhitespace(text))

\* A line was returned with two spaces in a row.
DoubleSpaceKept ==
    /\ WrapReturned
    /\ \E i \in 1..Len(wrap.lines) : HasDoubleSpace(wrap.lines[i])

\* A text without two spaces in a row was returned with one of its words
\* on two lines.
HyphenatedWordSplit ==
    /\ WrapReturned
    /\ ~HasDoubleSpace(text)
    /\ Len(WordsOfLines(wrap.lines)) > Len(NonEmptyWords(text))

(***************************************************************************)
(* get_random_color_palette: the two hues and the recipes.                 *)
(***************************************************************************)
\* The colours of two keys are the dark recipes of a hue.
DarkOf(saturated, desaturated, h) ==
    /\ EncodesHsv(palette[saturated], h, 80, 30)
    /\ EncodesHsv(palette[desaturated], h, 50, 20)

\* The colours of two keys are the light recipes of a hue.
LightOf(saturated, desaturated, h) ==
    /\ EncodesHsv(palette[saturated], h, 80, 90)
    /\ EncodesHsv(palette[desaturated], h, 20, 100)

\* Some outcome of the random choices gives dark the dark recipes and light
\* the light ones, with the dark colours primary or not as asked.
PossibleOutcome(dark, light, dark_primary) ==
    \E divisions \in 3..4, start \in {dark, light}, reverse \in BOOLEAN :
        /\ SortedHues(divisions, start, reverse) = <<dark, light>>
        /\ get_random_color_palette(divisions, start, reverse, dark_primary)
               ["primary-saturated"]
           = IF dark_primary
             THEN get_monochrome_palette(dark)["dark-saturated"]
             ELSE get_monochrome_palette(light)["light-saturated"]

\* C24: in every outcome of get_random_color_palette the two hues are b and
\* b + 120 or b and b + 90 (mod 360) for a hue b of 0..359; the two
\* "primary-*" colours come from one of the hues and the two "secondary-*"
\* colours from the other; the primary colours are the two dark recipes
\* (80%/30% and 50%/20%) and the secondary ones the two light recipes
\* (80%/90% and 20%/100%), or the other way round; and both orders of the two
\* hues and both choices of the primary colours are outcomes.
C24_RandomPaletteHues ==
    (pc = "done" /\ called = "get_random_color_palette") =>
        /\ dark_hue \in 0..359
        /\ light_hue \in 0..359
        /\ \E b \in {dark_hue, light_hue}, hue_offset \in {120, 90} :
              {dark_hue, light_hue} = {b, (b + hue_offset) % 360}
        /\ \/ /\ DarkOf("primary-saturated", "primary-desaturated", dark_hue)
              /\ LightOf("secondary-saturated", "secondary-desaturated",
                         light_hue)
           \/ /\ LightOf("primary-saturated", "primary-desaturated", light_hue)
              /\ DarkOf("secondary-saturated", "secondary-desaturated",
                        dark_hue)
        /\ \A dark_primary \in BOOLEAN :
              /\ PossibleOutcome(dark_hue, light_hue, dark_primary)
              /\ PossibleOutcome(light_hue, dark_hue, dark_primary)

\* A tetradic outcome across 0: the hues 350 and 80, sorted in reverse, the
\* light colours of hue 80 primary.
C24_Witness ==
    /\ pc = "done"
    /\ called = "get_random_color_palette"
    /\ dark_hue = 350
    /\ light_hue = 80
    /\ LightOf("primary-saturated", "primary-desaturated", 80)
    /\ ~LightOf("primary-saturated", "primary-desaturated", 350)
    /\ DarkOf("secondary-saturated", "secondary-desaturated", 350)

(***************************************************************************)
(* get_color_palette: the foreground hue.                                  *)
(***************************************************************************)
\* C25: whatever the random choices of get_color_palette, the foreground
\* hue it converts is a multiple of 15 in the range of the hues, 0..359:
\* never 360 or more and never negative.
C25_ForegroundHueInRange ==
    (pc = "done" /\ called = "get_color_palette") =>
        /\ foreground_hue % 15 = 0
        /\ foreground_hue \in 0..(FullCircle - 1)

\* What the code does: the foreground hue is a multiple of 15 from 0 to 360,
\* the ends included, and the hue 360 is converted to the colour of hue 0.
ForegroundHueUpTo360 ==
    (pc = "done" /\ called = "get_color_palette") =>
        /\ foreground_hue % 15 = 0
        /\ foreground_hue \in 0..FullCircle
        /\ \E value \in {30, 90} :
              palette[1] = HexColorOf(getrgb_hsv(foreground_hue % FullCircle,
                                                 100, value))

\* The foreground hue 360 was converted, to the red of hue 0 at 90%.
ForegroundHue360 ==
    /\ pc = "done"
    /\ called = "get_color_palette"
    /\ foreground_hue = 360
    /\ palette[1] = <<"#", "e", "6", "0", "0", "0", "0", "f", "f">>

(***************************************************************************)
(* get_bounds: the box is a box of the buffer, and stable under cropping.  *)
(***************************************************************************)
\* image.crop(bounds): the buffer cropped to the box get_bounds returned.
CroppedToBounds == Crop(image, bounds[1], bounds[2], bounds[3], bounds[4])

\* C26: for every buffer at least one pixel wide and high, every colour and
\* both values of foreground, the box (left, top, right, bottom) get_bounds
\* returns has 0 <= left < right <= width and 0 <= top < bottom <= height,
\* and get_bounds with the same colour and foreground returns, for the
\* buffer cropped to the box, the whole of it:
\* (0, 0, right - left, bottom - top).
C26_BoundsValidAndStable ==
    pc = "done" =>
        /\ 0 <= bounds[1] /\ bounds[1] < bounds[3] /\ bounds[3] <= image.width
        /\ 0 <= bounds[2] /\ bounds[2] < bounds[4] /\ bounds[4] <= image.height
        /\ get_bounds(CroppedToBounds, color, foreground)
               = <<0, 0, bounds[3] - bounds[1], bounds[4] - bounds[2]>>

\* A box smaller than its 3 x 3 buffer on every side but the left, around
\* three matching pixels that leave a pixel of the box unmatched.
C26_Witness ==
    /\ pc = "done"
    /\ image.width = 3 /\ image.height = 3
    /\ foreground
    /\ Matching = {<<0, 1>>, <<1, 1>>, <<1, 0>>}
    /\ bounds = <<0, 0, 2, 2>>
    /\ Size(CroppedToBounds) = <<2, 2>>

(***************************************************************************)
(* get_word_wrap and text_image_fit_box: the font sizes they use.          *)
(***************************************************************************)
\* The lowest font size a call get_word_wrap(text, font, image_width,
\* characters) measures at or returns: the first size (line 316), at which
\* it measures the lines if there are any, and the size it returns.
LowestWrapSizes(characters) ==
    (IF WrapLines(text, characters) # <<>>
     THEN {ConservativeSize(image_width, WrapCharacters(text, characters))}
     ELSE {})
    \cup {wrapped.font_size :
            wrapped \in {w \in {get_word_wrap(text, font, image_width,
                                              characters)} : w.status = "ok"}}

\* The lowest font sizes of a call of text_image_fit_box that ended: those
\* of its calls of get_word_wrap, for minimum_characters up to the last
\* character count, and the size the inner loop ended at, at which it
\* measured last and at which the lines are rendered.
LowestSizes ==
    UNION {LowestWrapSizes(characters) :
              characters \in minimum_characters..rendered.characters}
    \cup {rendered.font_size}

\* text_image_fit_box returned or raised for a text that is not empty.
FitBoxEnded ==
    pc = "done" /\ text # <<>> /\ rendered.status \in {"ok", "raise"}

\* C27: for every non-empty text, minimum_characters >= 1, image_width >= 1
\* and image_height >= 1, every font size at which get_word_wrap and
\* text_image_fit_box measure or render, and the font size get_word_wrap
\* returns, is at least 1.
C27_FontSizeAtLeastOne ==
    FitBoxEnded => \A size \in LowestSizes : size >= MinFontSize

\* What the code does: the sizes are never negative, and whenever one of
\* them is 0 the call raises (font_variant for the size 0) and returns no
\* image.
FontSizeZeroRaises ==
    FitBoxEnded =>
        /\ \A size \in LowestSizes : size >= 0
        /\ (0 \in LowestSizes) <=> (rendered.status = "raise")

\* get_word_wrap measures the line at size 0: image_width 1.
MeasuredAtZero ==
    /\ FitBoxEnded
    /\ text = <<"a">>
    /\ image_width = 1
    /\ ConservativeSize(image_width, WrapCharacters(text, minimum_characters)) = 0
    /\ rendered.status = "raise"

\* get_word_wrap returns the size 0 and the inner loop of
\* text_image_fit_box sets it.
ReturnedZero ==
    /\ FitBoxEnded
    /\ get_word_wrap(text, font, image_width, rendered.characters).status = "ok"
    /\ get_word_wrap(text, font, image_width, rendered.characters).font_size = 0
    /\ rendered.status = "raise"

\* get_word_wrap returns a size above 1 and the inner loop of
\* text_image_fit_box lowers it to 0.
LoweredToZero ==
    /\ FitBoxEnded
    /\ get_word_wrap(text, font, image_width, rendered.characters).status = "ok"
    /\ get_word_wrap(text, font, image_width, rendered.characters).font_size > 1
    /\ rendered.font_size = 0
    /\ rendered.status = "raise"

====
